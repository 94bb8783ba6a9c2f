------------------------------ MODULE PgsqlMessages ------------------------------
(* pgsqlMessageParser (protos/pgsql/pgsql.go).  Units are messages of the  *)
(* protocol: a type, 4 bytes of length and the rest, or one of the first   *)
(* messages of a connection, which have no type.                           *)
EXTENDS Wire

Special == {"ssl", "startup", "cancel"}

\* A message is one unit, or a row description, rows, and what ends them.
PgsqlStream(w) ==
    \A u \in UnitsOf(w) :
        /\ u.what # "sslreply" => u.len >= 5
        /\ u.what = "sslreply" => u.len = 1
        /\ u.what \in Special => u.len >= 8
        /\ u.what = "I" => u.len = 5
        /\ u.msg = 0 => u.what \in Special \cup {"sslreply", "Z", "D", "other"}
        /\ Opens(w, u) => \/ u.what \in {"Q", "I", "E", "C"} /\ Closes(w, u)
                          \/ u.what = "T" /\ ~Closes(w, u)
        /\ u.msg # 0 /\ ~Opens(w, u) => /\ u.what \in {"D", "C", "E", "other"}
                                        /\ u.what = "C" => Closes(w, u)
                                        /\ u.what = "D" => ~Closes(w, u)

ASSUME PgsqlGrammar == \A w \in Wires : w.proto = "pgsql" => PgsqlStream(w)

\* "Message too short. Wait for more."
PgsqlTooShort ==
    /\ AtWork("pgsql") /\ state \in {"start", "data"} /\ Avail \in 1 .. 4
    /\ WaitHere

\* A message without type.  With less than 8 bytes it is taken for a message of
\* type 0 with a huge length, so the parser waits in any case.
PgsqlSpecial ==
    /\ AtWork("pgsql") /\ state = "start" /\ Avail >= 5 /\ Here.what \in Special
    /\ IF Avail < 8 \/ Avail < Here.len THEN WaitHere
       ELSE IF Here.what = "ssl" THEN Ship(offset, offset + Here.len, FALSE, TRUE)
       ELSE Advance(Here.len, state, m)

\* The one byte reply to an SSL request that was seen in the other direction.
PgsqlSSLReply ==
    /\ AtWork("pgsql") /\ state = "start" /\ Avail >= 5 /\ Here.what = "sslreply"
    /\ Ship(offset, offset + 1, FALSE, TRUE)

\* Mutant: a message that ends with the packet is taken to be cut.
PgsqlMessageOffByOne ==
    /\ AtWork("pgsql") /\ state = "start" /\ Avail >= 5
    /\ Here.what \in {"Q", "I", "E", "C", "Z"}
    /\ IF Avail > Here.len
       THEN Ship(offset, offset + Here.len, Here.what # "Z", TRUE)
       ELSE WaitHere

\* SimpleQuery, EmptyQueryResponse, ErrorResponse, CommandComplete; ReadyForQuery
\* is not exported.
PgsqlMessage ==
    /\ AtWork("pgsql") /\ state = "start" /\ Avail >= 5
    /\ Here.what \in {"Q", "I", "E", "C", "Z"}
    /\ IF Avail >= Here.len
       THEN Ship(offset, offset + Here.len, Here.what # "Z", TRUE)
       ELSE Wait(offset, state, [m EXCEPT !.start = offset])

\* RowDescription: the rows follow.
PgsqlRowDescription ==
    /\ AtWork("pgsql") /\ state = "start" /\ Avail >= 5 /\ Here.what = "T"
    /\ IF Avail >= Here.len
       THEN Advance(Here.len, "data", [m EXCEPT !.start = offset])
       ELSE Wait(offset, state, [m EXCEPT !.start = offset])

\* "ignore command"
PgsqlIgnored ==
    /\ AtWork("pgsql") /\ state = "start" /\ Avail >= 5 /\ Here.what \in {"D", "other"}
    /\ IF Avail >= Here.len THEN Advance(Here.len, state, m) ELSE WaitHere

\* One more row for the message.
pgsqlRowsParser(msg) == [msg EXCEPT !.n = @ + 1]

\* PgsqlGetDataState: a row, the end of the rows, or a message that "shouldn't
\* happen", which the start state reads again.
PgsqlRow ==
    /\ AtWork("pgsql") /\ state = "data" /\ Avail >= 5
    /\ Here.what = "D"
    /\ IF Avail >= Here.len THEN Advance(Here.len, state, pgsqlRowsParser(m)) ELSE WaitHere

PgsqlRowsEnd ==
    /\ AtWork("pgsql") /\ state = "data" /\ Avail >= 5
    /\ Here.what = "C"
    /\ IF Avail >= Here.len THEN Ship(m.start, offset + Here.len, TRUE, TRUE) ELSE WaitHere

PgsqlSkip ==
    /\ AtWork("pgsql") /\ state = "data" /\ Avail >= 5
    /\ Here.what \notin {"C", "D"}
    /\ Advance(0, "start", m)

\* GapInStream: a response with a row is handed on, marked as incomplete.  TCP drops
\* the stream afterwards.
PgsqlGapInStream ==
    /\ wire.proto = "pgsql" /\ ~parsing /\ ended = ""
    /\ ended' = "gap"
    /\ shipped' = IF m.there /\ m.n > 0 THEN Append(shipped, <<m.start, offset>>) ELSE shipped
    /\ UNCHANGED <<wire, sent, base, offset, state, m, parsing>>

PgsqlStep ==
    PgsqlTooShort \/ PgsqlSpecial \/ PgsqlSSLReply \/ PgsqlMessage \/ PgsqlRowDescription
    \/ PgsqlIgnored \/ PgsqlRow \/ PgsqlRowsEnd \/ PgsqlSkip \/ EndOfData("pgsql")
===============================================================================
