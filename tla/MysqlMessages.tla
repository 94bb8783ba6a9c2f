------------------------------ MODULE MysqlMessages ------------------------------
(* mysqlMessageParser (protos/mysql/mysql.go).  Units are packets of the   *)
(* protocol, 4 bytes of header and at least one byte.  The n of an OK or   *)
(* EOF is how many bytes there have to be for its two counts to be read,   *)
(* and they need not be its own: the bytes of an EOF are read like those   *)
(* of an OK (251 warnings are no number at all: n is then beyond any       *)
(* buffer).  What is read of an ERR goes up to byte 13.                    *)
EXTENDS Wire

CONSTANT MaxPayload     \* MAX_PAYLOAD_SIZE

ASSUME MysqlMessagesAssumption == MaxPayload \in Nat

\* A message is one packet, or the number of columns, fields, rows, and the packets
\* that end them: an EOF, or an ERR when the query fails half-way.
MysqlStream(w) ==
    \A u \in UnitsOf(w) :
        /\ u.len >= 5
        /\ u.what = "err" => u.n = 13
        /\ u.what \notin {"ok", "eof", "err"} => u.n = 0
        /\ u.msg = 0 => u.what = "command"
        /\ Opens(w, u) =>
              \/ u.what \in {"query", "ok", "eof", "err"} /\ Closes(w, u)
              \/ /\ u.what = "count"
                 /\ \E e, f \in UnitsOf(w) :
                       /\ u.at < e.at /\ e.at < f.at /\ f.msg = u.msg /\ Closes(w, f)
                       /\ e.what = "eof" /\ f.what \in {"eof", "err"}
                       /\ \A v \in UnitsOf(w) :
                             /\ u.at < v.at /\ v.at < e.at => v.what = "field"
                             /\ e.at < v.at /\ v.at < f.at => v.what = "row"

ASSUME MysqlGrammar == \A w \in Wires : w.proto = "mysql" => MysqlStream(w)

\* "MySQL Message too short. Ignore it."
MysqlTooShort ==
    /\ AtWork("mysql") /\ state = "start" /\ Avail \in 1 .. 4
    /\ EndStream("rejected")

\* The fifth byte and the sequence number tell what the packet is; packets that
\* are neither a query nor the beginning of a response are ignored, and with them a
\* number of columns that takes more than one byte.
MysqlStart ==
    /\ AtWork("mysql") /\ state = "start" /\ Avail >= 5
    /\ LET msg == [m EXCEPT !.start = offset, !.n = Here.len] IN
       IF Here.what = "count" /\ Here.len = 5
       THEN Advance(5, "fields", msg)
       ELSE Advance(0, "message",
                    IF Here.what \in {"query", "ok", "eof", "err"} THEN msg
                    ELSE [msg EXCEPT !.flags = {"ignore"}])

\* parseOffset has moved behind the packet when its content is read.  Where bytes
\* are missing read_linteger reads past the end of the buffer or calls the number not
\* complete; an ERR is cut out of the buffer in any case.
MysqlCountsMissing ==
    \/ EndStream("panicked")
    \/ UnitAt(m.start).what # "err" /\ Wait(offset + m.n, state, m)

MysqlEatMessage ==
    /\ AtWork("mysql") /\ state = "message" /\ Avail > 0
    /\ IF Avail < m.n THEN WaitHere
       ELSE IF sent - m.start < UnitAt(m.start).n THEN MysqlCountsMissing
       ELSE Ship(m.start, offset + m.n, "ignore" \notin m.flags, TRUE)

MysqlEatFields ==
    /\ AtWork("mysql") /\ state = "fields" /\ Avail > 0
    /\ IF Avail < 4 \/ Avail < Here.len THEN WaitHere
       ELSE Advance(Here.len, IF Here.what = "eof" THEN "rows" ELSE "fields", m)

\* A row; beyond MAX_PAYLOAD_SIZE "only send up to here, but read until the end".
MysqlEatRow ==
    /\ AtWork("mysql") /\ state = "rows" /\ Avail > 0
    /\ IF Avail < 4 \/ Avail < Here.len THEN WaitHere
       ELSE /\ Here.what # "eof"
            /\ LET next == offset + Here.len IN
               Advance(Here.len, "rows",
                   IF m.end = 0 /\ next - base > MaxPayload THEN [m EXCEPT !.end = next] ELSE m)

\* The last packet of the rows: the buffer is cut after m.end.
MysqlEatLastRow ==
    /\ AtWork("mysql") /\ state = "rows" /\ Avail >= 4 /\ Avail >= Here.len
    /\ Here.what = "eof"
    /\ Ship(m.start, IF m.end = 0 THEN offset + Here.len ELSE m.end, TRUE, TRUE)

MysqlStep ==
    MysqlTooShort \/ MysqlStart \/ MysqlEatMessage \/ MysqlEatFields \/ MysqlEatRow
    \/ MysqlEatLastRow \/ EndOfData("mysql")
===============================================================================
