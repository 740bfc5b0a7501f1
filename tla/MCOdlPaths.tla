----------------------------- MODULE MCOdlPaths -----------------------------
(***************************************************************************)
(* OdlPaths for TLC.                                                       *)
(***************************************************************************)
EXTENDS OdlPaths, TLC

TheSpines == {<<"spine", 1, 1>>, <<"spine", 1, 2>>, <<"spine", 2, 2>>}
TheLists == {<< <<"spine", 1, 1>>, <<"spine", 2, 2>> >>, << <<"spine", 1, 2>> >>}

\* Two DCMs on end nodes of pod 1.  The first has a connection from its pod,
\* the second one from the other pod.
TheEnds == << <<"end", "e1">>, <<"end", "e2">>, <<"end", "e3">> >>
ThePods == <<"end", "e1">> :> 1 @@ <<"end", "e2">> :> 1 @@ <<"end", "e3">> :> 2
TheNodes == "p" :> <<"end", "e1">> @@ "q" :> <<"end", "e2">>
TheInflows == "p" :> << <<"conn", "a">> >> @@ "q" :> << <<"conn", "c">> >>
TheSources == <<"conn", "a">> :> <<"end", "e2">>
              @@ <<"conn", "c">> :> <<"end", "e3">>

\* All bridges, with the one spines and with the other.
TheLeaves == << Leaf(1, 1), Leaf(1, 2), Leaf(2, 1), Leaf(2, 2) >>
TheBridges == {TheEnds \o TheLeaves \o << <<"spine", 1, 1>>, <<"spine", 2, 2>> >>,
               << <<"spine", 1, 2>> >> \o TheLeaves \o TheEnds}
=============================================================================
