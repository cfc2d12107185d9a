--------------------------- MODULE MCPacketFilter ---------------------------
(* Small instances of PacketFilter for TLC.  The first cell of a hello is    *)
(* the record header, 5 bytes, every other cell stands for 4: two cells are  *)
(* too short to be inspected, three are not.                                 *)
EXTENDS PacketFilter, TLC

CONSTANTS c1, c2, good, bad, mixed, empty

\* check_access refuses bad (a blacklisted name), allows good, and answers
\* differently over time for mixed (a name the lookup server classifies) and
\* for the empty name
MCAccess == (good :> {ACCEPT}) @@ (bad :> {DROP})
              @@ (mixed :> {ACCEPT, DROP}) @@ (empty :> {ACCEPT, DROP})

\* each connection has ports of its own, or c2 follows c1 on the same ones
OwnPorts == [c \in Conns |-> c]
SamePorts == [c \in Conns |-> c1]

\* c1 asks for a refused name and c2 for an allowed one
SniBadGood == (c1 :> bad) @@ (c2 :> good)
SniGoodBad == (c1 :> good) @@ (c2 :> bad)
SniAllowed == [c \in Conns |-> good]

\* hellos of 6 cells: 5 and the record header
RecLen5 == [c \in Conns |-> 5]
\* the hello of c2 is larger than a flow can hold
RecLen57 == (c1 :> 5) @@ (c2 :> 7)
\* the hello of c1 may take three packets
RecLen85 == (c1 :> 8) @@ (c2 :> 5)
\* the hello of c2 fits into a flow without its record header only
RecLen56 == (c1 :> 5) @@ (c2 :> 6)
\* the name is in the first packet of a hello
NameEnd3 == [c \in Conns |-> 3]
NameEnd4 == [c \in Conns |-> 4]
\* the name ends in the second packet of a hello cut after cell 4
NameEnd5 == [c \in Conns |-> 5]
\* the name ends in the very last cell of the record
NameEnd6 == [c \in Conns |-> 6]

Query(port, len, kind, name) ==
  [port |-> port, conn |-> c1, from |-> 0, len |-> len, kind |-> kind, name |-> name]
NoQueries == {}
AllQueries ==
  {Query(53, 3, "plain", bad), Query(53, 3, "othertype", bad), Query(53, 3, "noquestion", NoName),
   Query(80, 3, "plain", mixed), Query(80, 3, "nohost", NoName), Query(80, 0, "plain", NoName),
   Query(80, 3, "nomethod", NoName), Query(0, 0, "plain", NoName)}
=============================================================================
