-------------------------------- MODULE MCTcp ----------------------------------
(* Small instances of Tcp for TLC.                                         *)
EXTENDS Tcp

CONSTANTS Client, Server, Other, Redis

MCEndpoints == {Client, Server, Other}
MCPortProtocol == [e \in MCEndpoints |-> IF e = Server THEN Redis ELSE Unknown]

Request == <<Client, Server>>
Response == <<Server, Client>>

Segment(t, pos, len, fin) == [tuple |-> t, pos |-> pos, len |-> len, fin |-> fin]

\* Position 3 of the requests has sequence number 0 when SeqSpace is 16.
MCISN == [t \in Tuples |-> IF t = Request THEN 13 ELSE 2]

\* Segments of up to 2 bytes in a window across the wrap-around, with holes,
\* and the end of the connection at several places; answers of the server with a hole
\* and the end of the connection; unrelated traffic.
MCPackets ==
    {Segment(Request, p, l, FALSE) : p \in 0 .. 3, l \in 1 .. 2}
    \cup {Segment(Request, p, 0, TRUE) : p \in {2, 3, 4}}
    \cup {Segment(Response, 0, 1, FALSE), Segment(Response, 2, 1, FALSE), Segment(Response, 1, 0, TRUE)}
    \cup {Segment(<<Client, Other>>, 0, 1, FALSE)}
===============================================================================
