--------------------------------- MODULE Parsers ---------------------------------
(***************************************************************************)
(* The message parsers of all plugins.  A wire is followed packet by       *)
(* packet, cut in every possible way: does the parser find the messages    *)
(* that are on the wire?  The correlators (SlotTransactions,               *)
(* PgsqlTransactions, ThriftTransactions) rely on it.                      *)
(***************************************************************************)
EXTENDS RedisMessages, MysqlMessages, HttpMessages, PgsqlMessages, ThriftMessages

parserVars == <<wireVars, skipInput>>

Init == WireInit /\ skipInput = FALSE

Parse(len) ==
    /\ ~skipInput /\ (wire.proto = "thrift" => ThriftSendable(len))
    /\ AppendPacket(len) \/ AppendOverflows(len)
    /\ UNCHANGED skipInput

redisMessageParser == RedisStep /\ UNCHANGED skipInput
mysqlMessageParser == MysqlStep /\ UNCHANGED skipInput
httpMessageParser  == HttpStep /\ UNCHANGED skipInput
pgsqlMessageParser == PgsqlStep /\ UNCHANGED skipInput

\* The buffer of a dropped stream is new, and not suspended.
Retry == \E u \in Units : RetryFinds(u) /\ skipInput' = FALSE

Next ==
    \/ \E len \in 1 .. MaxPacket : Parse(len) \/ ThriftSkip(len)
    \/ redisMessageParser \/ mysqlMessageParser \/ httpMessageParser \/ pgsqlMessageParser
    \/ ThriftStep \/ ThriftResume
    \/ (Astray \/ HttpReceivedFin \/ PgsqlGapInStream \/ OtherDirectionPanics)
       /\ UNCHANGED skipInput
    \/ Retry

Spec == Init /\ [][Next]_parserVars

-------------------------------------------------------------------------------
(* Messages that a parser gets wrong however they are cut:                 *)
(*   - redis: "*0" does not complete a message, so that it swallows the    *)
(*     next one, and a multi bulk within one replaces its count;           *)
(*   - mysql: of a long response the rows after MAX_PAYLOAD_SIZE are cut   *)
(*     off the message, but left in the buffer; a response with more than  *)
(*     250 columns is not recognised; an ERR among the rows is taken for a *)
(*     row; the counts of an EOF may be read beyond its end;               *)
(*   - http: the header after a folded line is lost, and a body may not be *)
(*     the one that the headers tell the parser (see BodyOf);              *)
(*   - pgsql: a notice or an error between rows ends the rows.             *)
EmptyMultiBulk == \E u \in Units : u.what = "*" /\ u.n = 0
NestedMultiBulk == \E u \in Units : u.what = "*" /\ ~Opens(wire, u)
LongResponse ==
    \E u \in Units : u.what = "row" /\ u.at + u.len - Messages[u.msg][1] > MaxPayload
WideResponse == \E u \in Units : u.what = "count" /\ u.len > 5
FailedResponse == \E u \in Units : u.what = "err" /\ ~Opens(wire, u)
CountsBeyond == \E u \in Units : u.what \in {"ok", "eof"} /\ Opens(wire, u) /\ u.n > u.len
OtherBody == \E u \in Units : u.what = "end" /\ ~BodyOf(wire, u)
RowsInterrupted ==
    \E u \in Units : u.msg # 0 /\ u.what \in {"other", "E"} /\ ~Opens(wire, u)
Misread ==
    \/ EmptyMultiBulk \/ NestedMultiBulk
    \/ LongResponse \/ WideResponse \/ FailedResponse \/ CountsBeyond
    \/ Has("folded") \/ OtherBody
    \/ RowsInterrupted

\* The messages that are handed on are the messages of the wire, byte by byte and
\* none left out, from where the parser last found its place and wherever TCP cuts
\* the stream; only the last one may be cut short by a gap or by the end of the
\* connection.
ShippedAsSent ==
    Misread \/ \A i \in 1 .. Len(shipped) :
        /\ i \in DOMAIN Messages /\ shipped[i][1] = Messages[i][1]
        /\ \/ shipped[i][2] = Messages[i][2]
           \/ i = Len(shipped) /\ ended \in {"fin", "gap"} /\ shipped[i][2] < Messages[i][2]

\* What begins where the buffer begins is so long that it need not fit into the buffer
\* with a packet behind it.
TooLong ==
    \E u \in Units :
        /\ u.at = base
        /\ (IF u.msg = 0 THEN u.at + u.len ELSE Messages[u.msg][2]) - base > MaxData - MaxPacket

\* A parser loses its place in a stream that is captured whole in these ways only:
\*   - redis: an inline command, or a bulk with a line break in it;
\*   - mysql: a packet of which less than 5 bytes are in one packet of TCP, or an ERR
\*     that ends less than 13 bytes before the end of the buffer;
\*   - http: a first line that is refused, or the trailer of a chunked message;
\*   - thrift: a struct that is cut between two fields, or a value that is refused;
\*   - a message too long for the buffer; http keeps messages that it could have handed
\*     on in it, pgsql commands that it ignores.
KeepsItsPlace ==
    /\ ended = "overflow" => Misread \/ TooLong \/ wire.proto \in {"http", "pgsql"}
    /\ ended \in {"rejected", "panicked", "astray"} =>
        \/ Misread
        \/ wire.proto = "mysql" /\ sent - offset < 5 /\ offset = base
        \/ wire.proto = "http" /\ Has("trailer")
        \/ \E u \in Units :
              \/ wire.proto = "redis" /\ u.at = offset /\ u.what = "inline"
              \/ wire.proto = "redis" /\ u.what = "data" /\ u.n + 2 < u.len
              \/ wire.proto = "mysql" /\ u.at = base /\ u.what = "err" /\ sent - base < 13
              \/ wire.proto = "http" /\ u.at = base /\ u.what = "refused"
              \/ wire.proto = "thrift" /\ sent - u.at \in u.inner
              \/ wire.proto = "thrift" /\ u.n > 0 /\ sent - u.at >= u.n

\* A response of http that has no length and is not chunked is complete only when
\* the next one begins or the connection ends.
OpenEnded(k) ==
    In(wire, k, "response") /\ ~In(wire, k, "content-length") /\ ~In(wire, k, "chunked")

\* When Parse returns, no message that is there as a whole is left waiting; only http
\* leaves the next one to the next packet once it has taken one off the buffer, at the
\* head of which it then stands.
WholeMessagesShipped ==
    ~parsing /\ ended = "" /\ ~Misread =>
        LET next == Len(shipped) + 1 IN
        \/ \A i \in DOMAIN Messages : Messages[i][2] <= sent => i < next
        \/ wire.proto = "http" /\ (OpenEnded(next) \/ (~m.there /\ Messages[next][1] = base))

\* At the end of a connection http hands on what it has begun to read: of the messages
\* that are there in whole or in part, only those behind the one that Parse took off the
\* last packet are lost, because no packet has come since to begin them.
FinShipsBegun ==
    ended = "fin" => Misread \/ \A i \in DOMAIN Messages :
        Messages[i][1] < sent => i <= Len(shipped) \/ (~m.there /\ base <= Messages[i][1])
===============================================================================
