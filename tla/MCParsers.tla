-------------------------------- MODULE MCParsers --------------------------------
(* Streams for Parsers: two or three messages each, a few bytes long.      *)
EXTENDS Parsers, SequencesExt, TLC

U(what, len, n, msg) == [what |-> what, len |-> len, n |-> n, msg |-> msg, inner |-> {}]
Cut(u, inner) == [u EXCEPT !.inner = inner]

\* Units one after the other.
Lay(proto, us) ==
    [proto |-> proto,
     units |-> [i \in DOMAIN us |->
         us[i] @@ [at |-> FoldLeft(LAMBDA a, u : a + u.len, 0, SubSeq(us, 1, i - 1))]]]

RedisWires == {
    Lay("redis", <<U("*", 4, 2, 1), U("$", 4, 3, 1), U("data", 5, 3, 1), U("$nil", 5, 0, 1),
                   U("+", 5, 0, 2), U("*nil", 5, 0, 3)>>),
    Lay("redis", <<U("*", 4, 2, 1), U(":", 4, 0, 1), U("$", 4, 1, 1), U("data", 3, 1, 1),
                   U("$", 4, 4, 2), U("data", 6, 1, 2)>>),
    Lay("redis", <<U("$", 5, 26, 1), U("data", 28, 26, 1), U("+", 24, 0, 2)>>),
    Lay("redis", <<U("*", 4, 0, 1), U("-", 4, 0, 2)>>),
    Lay("redis", <<U(":", 4, 0, 1), U("inline", 6, 0, 2), U("*", 4, 1, 3), U("$", 4, 1, 3),
                   U("data", 3, 1, 3)>>),
    Lay("redis", <<U("*", 4, 2, 1), U("*", 4, 1, 1), U(":", 4, 0, 1), U("+", 5, 0, 1)>>)}

Rows(rows, last, k) ==
    <<U("count", 5, 0, k), U("field", 9, 0, k), U("eof", 9, 7, k)>> \o rows \o <<last>>
Eof(k) == U("eof", 9, 7, k)
LongRows == Lay("mysql", Rows([i \in 1 .. 3 |-> U("row", 5, 0, 1)], Eof(1), 1)
                         \o <<U("ok", 11, 7, 2)>>)
MysqlWires == {
    Lay("mysql", <<U("query", 8, 0, 1), U("command", 5, 0, 0), U("query", 7, 0, 2)>>),
    Lay("mysql", <<U("command", 26, 0, 0), U("query", 25, 0, 1)>>),
    Lay("mysql", Rows(<<U("row", 6, 0, 1)>>, Eof(1), 1)
                 \o <<U("ok", 11, 8, 2), U("err", 9, 13, 3)>>),
    Lay("mysql", Rows(<<>>, U("err", 13, 13, 1), 1) \o <<Eof(2), U("ok", 11, 7, 3)>>),
    Lay("mysql", <<U("count", 7, 0, 1), U("field", 9, 0, 1), U("eof", 9, 7, 1), Eof(1)>>),
    Lay("mysql", <<U("eof", 9, 14, 1), U("ok", 11, 7, 2), U("err", 14, 13, 3)>>),
    LongRows}

Get(k) == <<U("request", 6, 0, k), U("end", 2, 0, k)>>
Pipelined == Lay("http", FlattenSeq([k \in 1 .. 9 |-> Get(k)]))
Folded ==
    Lay("http", <<U("request", 6, 0, 1), U("header", 4, 0, 1), U("folded", 4, 0, 1),
                  U("content-length", 4, 3, 1), U("end", 2, 0, 1), U("body", 3, 0, 1)>>)
HttpWires == {
    Pipelined, Folded,
    Lay("http", <<U("request", 6, 0, 1), U("content-length", 5, 3, 1), U("end", 2, 0, 1),
                  U("body", 3, 0, 1), U("request", 6, 0, 2), U("end", 2, 0, 2)>>),
    Lay("http", <<U("response", 6, 0, 1), U("chunked", 4, 0, 1), U("end", 2, 0, 1),
                  U("size", 3, 3, 1), U("chunk", 5, 0, 1), U("size", 3, 0, 1), U("final", 2, 0, 1),
                  U("no-content", 5, 0, 2), U("content-length", 4, 9, 2), U("end", 2, 0, 2),
                  U("response", 6, 0, 3), U("content-length", 4, 0, 3), U("end", 2, 0, 3)>>),
    Lay("http", <<U("response", 6, 0, 1), U("header", 4, 0, 1), U("end", 2, 0, 1),
                  U("response", 6, 0, 2), U("end", 2, 0, 2)>>),
    Lay("http", <<U("response", 6, 0, 1), U("content-length", 4, 2, 1), U("end", 2, 0, 1),
                  U("body", 2, 0, 1), U("response", 6, 0, 2), U("end", 2, 0, 2)>>),
    Lay("http", <<U("response", 6, 0, 1), U("close", 4, 0, 1), U("end", 2, 0, 1),
                  U("body", 5, 0, 1)>>),
    Lay("http", <<U("response", 6, 0, 1), U("chunked", 4, 0, 1), U("end", 2, 0, 1),
                  U("size", 3, 0, 1), U("trailer", 4, 0, 1), U("final", 2, 0, 1)>>),
    Lay("http", <<U("response", 6, 0, 1), U("content-length", 4, 5, 1), U("end", 2, 0, 1),
                  U("response", 6, 0, 2), U("content-length", 4, 0, 2), U("end", 2, 0, 2)>>),
    Lay("http", <<U("response", 6, 0, 1), U("chunked", 4, 0, 1), U("end", 2, 0, 1),
                  U("response", 6, 0, 2), U("content-length", 4, 0, 2), U("end", 2, 0, 2)>>),
    Lay("http", <<U("response", 6, 0, 1), U("header", 4, 0, 1), U("end", 2, 0, 1),
                  U("size", 3, 3, 1), U("chunk", 5, 0, 1), U("size", 3, 0, 1), U("final", 2, 0, 1)>>),
    Lay("http", <<U("refused", 5, 0, 1), U("end", 2, 0, 1)>> \o Get(2))}

PgsqlWires == {
    Lay("pgsql", <<U("ssl", 8, 0, 0), U("startup", 12, 0, 0), U("Q", 9, 0, 1), U("Q", 7, 0, 2)>>),
    Lay("pgsql", <<U("sslreply", 1, 0, 0), U("other", 9, 0, 0), U("T", 8, 0, 1), U("D", 7, 0, 1),
                   U("D", 7, 0, 1), U("C", 7, 0, 1), U("Z", 6, 0, 0), U("I", 5, 0, 2)>>),
    Lay("pgsql", <<U("E", 7, 0, 1), U("Z", 6, 0, 0), U("T", 8, 0, 2), U("D", 7, 0, 2),
                   U("other", 7, 0, 2), U("D", 7, 0, 2), U("C", 7, 0, 2)>>),
    Lay("pgsql", <<U("T", 8, 0, 1), U("D", 7, 0, 1), U("E", 7, 0, 1), U("Z", 6, 0, 0)>>)}

ThriftCall(k) ==
    <<U("begin", 13, 0, k), U("field", 5, 0, k), Cut(U("field", 12, 0, k), {7}), U("stop", 1, 0, k)>>
Refuse(u, n) == [u EXCEPT !.n = n]
ThriftWires == {
    Lay("thrift", <<U("begin", 13, 0, 1), Refuse(Cut(U("field", 9, 0, 1), {5, 7}), 7),
                    U("stop", 1, 0, 1)>> \o ThriftCall(2)),
    Lay("thrift", ThriftCall(1) \o ThriftCall(2)),
    Lay("thrift", <<U("frame", 4, 0, 1), U("begin", 13, 0, 1), U("stop", 1, 0, 1),
                    U("frame", 4, 0, 2), U("begin", 13, 0, 2), U("stop", 1, 0, 2)>>),
    Lay("thrift", <<U("frame", 4, 0, 1), U("reply", 13, 0, 1), U("field", 6, 0, 1), U("stop", 1, 0, 1),
                    U("frame", 4, 0, 2), U("reply", 13, 0, 2), U("field", 6, 0, 2), U("stop", 1, 0, 2)>>)}

\* Every stream and what may be left of it.
Tails(w) == {Rest(w, u) : u \in {v \in UnitsOf(w) : EntryPoint(w, v)}}
AllWires ==
    UNION {Tails(w) : w \in
        RedisWires \cup MysqlWires \cup HttpWires \cup PgsqlWires \cup ThriftWires}
===============================================================================
