----------------------------- MODULE ThriftMessages ------------------------------
(* messageParser of thrift (protos/thrift/thrift.go).  Units are frame     *)
(* headers (framed transport), message beginnings, fields and stops; inner *)
(* are the positions between the fields of a struct that is a value, and n *)
(* is the position at which a value is refused (0: it is not).             *)
(* Without capture_reply the results are not read: from the beginning of a *)
(* reply, the direction is suspended until the next request.               *)
EXTENDS Wire

VARIABLE skipInput

\* A message is a beginning, fields and a stop; the bytes of a result are not
\* looked at.
ThriftStream(w) ==
    \A u \in UnitsOf(w) :
        /\ u.msg # 0 /\ (Opens(w, u) => u.what \in {"frame", "begin", "reply"})
        /\ u.what = "frame" => GoesOn(w, u, {"begin", "reply"})
        /\ u.what \in {"begin", "field"} => GoesOn(w, u, {"field", "stop"})
        /\ u.what = "field" => u.n <= u.len
        /\ u.what = "stop" => u.len = 1 /\ Closes(w, u)
        /\ u.what = "reply" => \A v \in UnitsOf(w) : v.what # "begin"

ASSUME ThriftGrammar == \A w \in Wires : w.proto = "thrift" => ThriftStream(w)

CaptureReply == ~Has("reply")

\* The client waits for the reply, and the server for the request.
ThriftSendable(len) ==
    CaptureReply \/ \E k \in DOMAIN Messages :
        /\ Messages[k][1] <= sent /\ sent + len <= Messages[k][2]
        /\ Messages[k][1] = sent => ~skipInput

\* Parse: a packet of a suspended direction is ignored.
ThriftSkip(len) ==
    /\ wire.proto = "thrift" /\ ended = "" /\ skipInput
    /\ sent + len <= Total /\ ThriftSendable(len)
    /\ sent' = sent + len /\ base' = sent + len /\ offset' = sent + len
    /\ UNCHANGED <<wire, state, m, parsing, ended, shipped, skipInput>>

\* The next request, complete in the other direction, ends the suspension.
ThriftResume ==
    /\ wire.proto = "thrift" /\ ended = "" /\ skipInput
    /\ \E k \in DOMAIN Messages : Messages[k][1] = sent
    /\ skipInput' = FALSE
    /\ UNCHANGED wireVars

\* The framed transport: the frame header is read again with what follows it.
Begin == IF Here.what = "frame" THEN UnitAt(offset + Here.len) ELSE Here
BeginRead == sent >= Begin.at + Begin.len

\* readMessageBegin, up to the sequence number.
ThriftBegin ==
    /\ AtWork("thrift") /\ state = "start" /\ Avail > 0 /\ Begin.what # "reply"
    /\ IF BeginRead THEN Advance(Begin.at + Begin.len - offset, "field", m) ELSE WaitHere
    /\ UNCHANGED skipInput

\* "don't actually read the result": the reply is complete, the rest of the buffer
\* is flushed.
ThriftReply ==
    /\ AtWork("thrift") /\ state = "start" /\ Avail > 0 /\ Begin.what = "reply"
    /\ IF BeginRead
       THEN /\ shipped' = Append(shipped, Messages[Begin.msg])
            /\ base' = sent /\ offset' = sent /\ state' = "start" /\ m' = NoMessage
            /\ parsing' = FALSE /\ skipInput' = TRUE
            /\ UNCHANGED <<wire, sent, ended>>
       ELSE WaitHere /\ UNCHANGED skipInput

\* The readers by type: a value is complete when all its bytes are there.
ValueComplete == Avail >= Here.len

\* drop_after_n_struct_fields, or "Field type not known".
Refused == Here.n > 0 /\ Avail >= Here.n
ThriftRefuses ==
    /\ AtWork("thrift") /\ state = "field" /\ Avail > 0 /\ Here.what = "field"
    /\ Refused
    /\ EndStream("rejected")
    /\ UNCHANGED skipInput

\* readField of a value.
ThriftField ==
    /\ AtWork("thrift") /\ state = "field" /\ Avail > 0 /\ Here.what = "field"
    /\ ~Refused /\ Avail \notin Here.inner
    /\ IF ValueComplete THEN Advance(Here.len, state, m) ELSE WaitHere
    /\ UNCHANGED skipInput

\* readStruct looks for the type of the next field without a test that there are
\* bytes left: Parse recovers and returns nil.
ThriftStructPanic ==
    /\ AtWork("thrift") /\ state = "field" /\ Avail > 0 /\ Here.what = "field"
    /\ ~Refused /\ Avail \in Here.inner
    /\ EndStream("panicked")
    /\ UNCHANGED skipInput

\* Mutant: the buffer is cut before the stop.
ThriftStopKept ==
    /\ AtWork("thrift") /\ state = "field" /\ Avail > 0 /\ Here.what = "stop"
    /\ Ship(base, offset, TRUE, TRUE)
    /\ UNCHANGED skipInput

ThriftStop ==
    /\ AtWork("thrift") /\ state = "field" /\ Avail > 0 /\ Here.what = "stop"
    /\ Ship(base, offset + 1, TRUE, TRUE)
    /\ UNCHANGED skipInput

ThriftEndOfData == EndOfData("thrift") /\ UNCHANGED skipInput

ThriftStep ==
    ThriftBegin \/ ThriftReply \/ ThriftRefuses \/ ThriftField \/ ThriftStructPanic \/ ThriftStop
    \/ ThriftEndOfData
===============================================================================
