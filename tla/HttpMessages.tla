------------------------------ MODULE HttpMessages -------------------------------
(* messageParser of http (protos/http/http.go).  Units are the first line, *)
(* the header lines, the empty line, bodies, lines with the size of a      *)
(* chunk, and chunks; a first line that the parser does not understand is  *)
(* "refused", and a header it does not look at is "header".  Parse takes   *)
(* at most one message off the buffer for each packet; the end of the      *)
(* connection ships what is there.                                         *)
EXTENDS Wire

FirstLines == {"request", "response", "no-content", "refused"}
Headers == {"header", "content-length", "chunked", "close"}

\* Is what follows the empty line u what the headers tell the parser?  It need not:
\* a response to HEAD has the headers of a body and none, a transfer encoding may be
\* another than "chunked", a connection may close that was not announced to.
BodyOf(w, u) ==
    LET has(kind) == In(w, u.msg, kind) IN
    IF has("no-content") THEN Closes(w, u)
    ELSE IF has("chunked") THEN GoesOn(w, u, {"size"})
    ELSE IF has("content-length")
    THEN \A c \in UnitsOf(w) : c.msg = u.msg /\ c.what = "content-length" =>
            IF c.n = 0 THEN Closes(w, u)
            ELSE /\ GoesOn(w, u, {"body"})
                 /\ \A v \in UnitsOf(w) : Follows(v, u) => v.len = c.n
    ELSE IF has("response") /\ has("close")
    THEN MessagesOf(w)[u.msg][2] = TotalOf(w)
    ELSE Closes(w, u)

\* A message is a first line, headers with at most one length, and a body.
HttpStream(w) ==
    \A u \in UnitsOf(w) :
        /\ u.msg # 0 /\ (u.what \in FirstLines <=> Opens(w, u))
        /\ u.what \in FirstLines \cup Headers \cup {"folded"} =>
              GoesOn(w, u, Headers \cup {"folded", "end"})
        /\ u.what = "content-length" => \A v \in UnitsOf(w) :
              v.msg = u.msg /\ v.what = "content-length" => v = u
        /\ u.what = "end" =>
              /\ u.len = 2
              /\ \A v \in UnitsOf(w) : v.msg = u.msg /\ v.what \in Headers => v.at < u.at
        /\ u.what = "body" => Closes(w, u)
        /\ u.what = "size" =>
              IF u.n = 0 THEN GoesOn(w, u, {"trailer", "final"})
              ELSE /\ GoesOn(w, u, {"chunk"})
                   /\ \A v \in UnitsOf(w) : Follows(v, u) => v.len = u.n + 2
        /\ u.what = "chunk" => GoesOn(w, u, {"size"})
        /\ u.what = "trailer" => GoesOn(w, u, {"trailer", "final"})
        /\ u.what = "final" => u.len = 2 /\ Closes(w, u)

ASSUME HttpGrammar == \A w \in Wires : w.proto = "http" => HttpStream(w)

LineComplete == Avail >= Here.len

\* START: "very basic tests on the first line".
HttpStart ==
    /\ AtWork("http") /\ state = "start" /\ Avail > 0
    /\ IF ~LineComplete THEN WaitHere
       ELSE IF Here.what \in FirstLines \ {"refused"}
       THEN Advance(Here.len, "headers", [m EXCEPT !.flags = {Here.what}])
       ELSE \/ EndStream("rejected")
            \/ EndStream("panicked")    \* fline[9:] of a status line without a status

\* parseHeader: the headers that matter for the length.
Noted(u) ==
    CASE u.what = "content-length" -> [m EXCEPT !.n = u.n, !.flags = @ \cup {"length"}]
      [] u.what \in {"chunked", "close"} -> [m EXCEPT !.flags = @ \cup {u.what}]
      [] OTHER -> m

HttpHeader ==
    /\ AtWork("http") /\ state = "headers" /\ Avail > 0
    /\ Here.what \notin {"end", "folded"}
    /\ IF LineComplete THEN Advance(Here.len, state, Noted(Here)) ELSE WaitHere

\* A line that continues the header before it is not recognised ("skip folding
\* line" looks at the second byte of the CRLF): it becomes part of the name of
\* the next header, whose meaning is lost.
HttpFoldedHeader ==
    /\ AtWork("http") /\ state = "headers" /\ Avail > 0 /\ Here.what = "folded"
    /\ LET both == Here.len + UnitAt(offset + Here.len).len IN
       IF Avail >= both THEN Advance(both, state, m) ELSE WaitHere

\* EOH: is there a body, and how does it end?
HttpEndOfHeaders ==
    /\ AtWork("http") /\ state = "headers" /\ Avail > 0 /\ Here.what = "end"
    /\ IF Avail < 2 THEN WaitHere
       ELSE IF "no-content" \in m.flags THEN Ship(m.start, offset + 2, TRUE, FALSE)
       ELSE IF "chunked" \in m.flags THEN Advance(2, "chunk-start", m)
       ELSE IF m.n = 0 /\ ("request" \in m.flags \/ "length" \in m.flags)
            THEN Ship(m.start, offset + 2, TRUE, FALSE)
       ELSE Advance(2, "body", m)

\* BODY
HttpBody ==
    /\ AtWork("http") /\ state = "body" /\ Avail > 0
    /\ IF "close" \in m.flags /\ "length" \notin m.flags
       THEN Wait(sent, state, [m EXCEPT !.received = @ + Avail, !.n = @ + Avail])
       ELSE IF Avail >= m.n - m.received
       THEN Ship(m.start, offset + m.n - m.received, TRUE, FALSE)
       ELSE Wait(sent, state, [m EXCEPT !.received = @ + Avail])

\* state_body_chunked_start; the chunk of size 0 ends the body.
state_body_chunked_start ==
    /\ AtWork("http") /\ state = "chunk-start" /\ Avail > 0
    /\ IF ~LineComplete THEN WaitHere
       ELSE IF Here.what # "size" THEN EndStream("rejected")
       ELSE IF Here.n > 0
       THEN Advance(Here.len, "chunk", [m EXCEPT !.n = Here.n, !.received = 0])
       ELSE IF Avail < Here.len + 2 THEN Wait(offset + Here.len, "final", m)
       ELSE IF UnitAt(offset + Here.len).what # "final" THEN EndStream("rejected")
       ELSE Ship(m.start, offset + Here.len + 2, TRUE, FALSE)

\* state_body_chunked: a chunk and its CRLF, or a part of it.
state_body_chunked ==
    /\ AtWork("http") /\ state = "chunk" /\ Avail > 0
    /\ LET rest == m.n - m.received IN
       IF Avail >= rest + 2 THEN Advance(rest + 2, "chunk-start", m)
       ELSE IF Avail >= rest THEN WaitHere
       ELSE Wait(sent, state, [m EXCEPT !.received = @ + Avail])

state_body_chunked_wait_final_crlf ==
    /\ AtWork("http") /\ state = "final" /\ Avail > 0
    /\ IF Avail < 2 THEN WaitHere
       ELSE IF Here.what # "final" THEN EndStream("rejected")
       ELSE Ship(m.start, offset + 2, TRUE, FALSE)

\* Mutant: only a message whose headers are complete is handed on.
HttpReceivedFinBodyOnly ==
    /\ wire.proto = "http" /\ ~parsing /\ ended = ""
    /\ ended' = "fin"
    /\ shipped' = IF m.there /\ state = "body" THEN Append(shipped, <<m.start, sent>>)
                                              ELSE shipped
    /\ UNCHANGED <<wire, sent, base, offset, state, m, parsing>>

\* ReceivedFin: "send whatever data we got so far as complete".
HttpReceivedFin ==
    /\ wire.proto = "http" /\ ~parsing /\ ended = ""
    /\ ended' = "fin"
    /\ shipped' = IF m.there /\ m.start < sent THEN Append(shipped, <<m.start, sent>>)
                                              ELSE shipped
    /\ UNCHANGED <<wire, sent, base, offset, state, m, parsing>>

HttpStep ==
    HttpStart \/ HttpHeader \/ HttpFoldedHeader \/ HttpEndOfHeaders \/ HttpBody
    \/ state_body_chunked_start \/ state_body_chunked \/ state_body_chunked_wait_final_crlf
    \/ EndOfData("http")
===============================================================================
