--------------------------- MODULE MCRoutingTable ---------------------------
(***************************************************************************)
(* Instances of RoutingTable for TLC; the constants are set in the          *)
(* RoutingTable*.cfg files.                                                 *)
(***************************************************************************)
EXTENDS RoutingTable

CONSTANTS a1, a2, a3, a4, a5

Read(id, a, version, key) ==
  [id |-> id, from |-> a, addr |-> a, version |-> version, key |-> key,
   verified |-> FALSE]

Near  == <<0, 0, 1>>
Next1 == <<0, 1, 1>>
Mid   == <<0, 1, 0>>
Side1 == <<1, 0, 0>>
Back  == <<1, 1, 0>>

\* Three contacts in a tree of three levels: one that moves, an old Kad2
\* client, and one with a sender key.
ThreeIds == {Near, Next1, Side1}
ThreeGreetings ==
  { Read(Near, a3, 0, 0), Read(Next1, a3, 5, 0), Read(Side1, a1, 8, 1) }
ThreeMentions == { Read(Near, a1, 8, 0), Read(Side1, a2, 8, 0) }
ThreeSaved == { [Read(Side1, a2, 8, 1) EXCEPT !.verified = TRUE], Read(Near, a1, 8, 0) }

\* Five contacts that split a bin of four; nobody says hello.
FiveIds == {Near, Next1, Mid, Side1, Back}
NoGreetings == {}
FiveMentions ==
  { Read(Near, a1, 8, 0), Read(Next1, a2, 8, 0), Read(Mid, a3, 8, 0),
    Read(Side1, a4, 8, 0) }
FiveSaved == { Read(Near, a1, 8, 0), Read(Back, a5, 8, 0) }
=============================================================================
