------------------------------ MODULE RedisMessages ------------------------------
(* redisMessageParser (protos/redis/redis.go).  Units are lines; a bulk is *)
(* a line with its length and a line of data, whose n is the distance to   *)
(* the first CRLF in it.  An inline command is a line that begins with its *)
(* name.                                                                   *)
EXTENDS Wire

Lines == {"*nil", "$nil", ":", "+", "-"}

\* A message is one value, or a "*" and as many values as it says.
ValuesOf(w, k) == {u \in UnitsOf(w) : u.msg = k /\ u.what \in Lines \cup {"$"}}
RedisStream(w) ==
    \A u \in UnitsOf(w) :
        /\ u.msg # 0 /\ u.what \in Lines \cup {"*", "$", "data", "inline"}
        /\ u.what = "*" /\ (\A v \in UnitsOf(w) : v.msg = u.msg /\ v.what = "*" => v = u) =>
              Cardinality(ValuesOf(w, u.msg)) = u.n
        /\ u.what = "$" => \E v \in UnitsOf(w) :
              /\ Follows(v, u) /\ v.msg = u.msg /\ v.what = "data"
              /\ v.len = u.n + 2 /\ v.n <= u.n
              /\ Opens(w, u) => Closes(w, v)
        /\ u.what = "data" => \E v \in UnitsOf(w) : Follows(u, v) /\ v.what = "$"
        /\ u.what \in Lines /\ Opens(w, u) => Closes(w, u)
        /\ u.what = "inline" => Opens(w, u) /\ Closes(w, u)

ASSUME RedisGrammar == \A w \in Wires : w.proto = "redis" => RedisStream(w)

\* readLine
LineFound(u) == sent >= u.at + u.len
DataOf(u) == UnitAt(u.at + u.len)

\* Mutant: the length line is not read again with the data.
BulkNotFoundForgets ==
    /\ AtWork("redis") /\ Avail > 0 /\ Here.what = "$"
    /\ \/ ~LineFound(Here) /\ WaitHere
       \/ LineFound(Here) /\ sent < DataOf(Here).at + DataOf(Here).n + 2
          /\ Wait(DataOf(Here).at, state, m)

\* "End of line not found, waiting for more data": parseOffset goes back to the
\* beginning of the bulk.
BulkNotFound ==
    /\ AtWork("redis") /\ Avail > 0 /\ Here.what = "$"
    /\ ~LineFound(Here) \/ sent < DataOf(Here).at + DataOf(Here).n + 2
    /\ WaitHere

LineNotFound ==
    /\ AtWork("redis") /\ Avail > 0 /\ Here.what \notin {"$", "inline"}
    /\ ~LineFound(Here) /\ WaitHere

\* "Unexpected message starting with ...": none of the types of a reply.
Unexpected ==
    /\ AtWork("redis") /\ Avail > 0 /\ Here.what = "inline"
    /\ EndStream("rejected")

\* The number of bulks that follow.
MultiBulk ==
    /\ AtWork("redis") /\ Avail > 0 /\ Here.what = "*" /\ LineFound(Here)
    /\ Advance(Here.len, state, [m EXCEPT !.n = Here.n])

\* "add value", the last one of a multi bulk or the only one.
AddValue(len) ==
    IF m.n > 1 THEN Advance(len, state, [m EXCEPT !.n = @ - 1])
               ELSE Ship(base, offset + len, TRUE, TRUE)

Value ==
    /\ AtWork("redis") /\ Avail > 0 /\ Here.what \in Lines /\ LineFound(Here)
    /\ AddValue(Here.len)

Bulk ==
    /\ AtWork("redis") /\ Avail > 0 /\ Here.what = "$" /\ LineFound(Here)
    /\ LET data == DataOf(Here) IN
       /\ sent >= data.at + data.n + 2
       /\ IF data.n = Here.n THEN AddValue(Here.len + data.len)
                             ELSE EndStream("rejected")     \* "Wrong length of data"

RedisStep ==
    BulkNotFound \/ LineNotFound \/ Unexpected \/ MultiBulk \/ Value \/ Bulk
    \/ EndOfData("redis")
===============================================================================
