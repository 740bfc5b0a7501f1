------------------------------ MODULE MCVoqSwq ------------------------------
(***************************************************************************)
(* Instances of VoqSwq for TLC: two ports and two connections.  The ports  *)
(* of an incast have the DCMs on port 0 and both ROSes on port 1, those of *)
(* a hairpin one ROS on port 0.  The DCMs of an incast are one host, those *)
(* of a hairpin two.                                                       *)
(***************************************************************************)
EXTENDS VoqSwq, TLC

MCHost == {"d1", "d2", "r1", "r2"}
MCIncastPort == "d1" :> 0 @@ "d2" :> 0 @@ "r1" :> 1 @@ "r2" :> 1
MCHairpinPort == "d1" :> 0 @@ "d2" :> 0 @@ "r1" :> 1 @@ "r2" :> 0
MCConn == {"a", "b"}
MCIncastDcm == [c \in MCConn |-> "d1"]
MCHairpinDcm == "a" :> "d1" @@ "b" :> "d2"
MCRos == "a" :> "r1" @@ "b" :> "r2"
MCSport == "a" :> 11 @@ "b" :> 12
MCDport == [c \in MCConn |-> 20]
MCLcoreOf == 0 :> "l0" @@ 1 :> "l1"

\* Packets each key sends: a's requests, b's requests, a's data, b's data.
LoadOf(ra, rb, da, db) == <<"a", "req">> :> ra @@ <<"b", "req">> :> rb
                       @@ <<"a", "data">> :> da @@ <<"b", "data">> :> db
MCLoadMain == LoadOf(2, 1, 2, 0)
MCLoadFull == LoadOf(2, 2, 0, 1)
MCLoadLive == LoadOf(1, 1, 2, 1)
MCLoadReqs == LoadOf(2, 2, 0, 0)
MCLoadBurst == LoadOf(2, 1, 0, 0)
=============================================================================
