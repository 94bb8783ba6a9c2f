---------------------------------- MODULE Wire -----------------------------------
(***************************************************************************)
(* One direction of a TCP stream as the message parsers of the plugins see *)
(* it: a sequence of units (lines, packets, chunks, fields) that TCP cuts  *)
(* anywhere.  A byte is known by its position in the stream: stream.data   *)
(* is the bytes from base to sent, and parseOffset is kept as the position *)
(* offset.  What the bytes say is read off the unit that begins there.     *)
(*                                                                         *)
(* A stream that a parser drops (priv.Data[dir] = nil) is parsed again     *)
(* from the next segment on.  What the parser makes of it is not recorded  *)
(* until it finds its place again: from there on the rest of the stream is *)
(* followed like a stream of its own.                                      *)
(***************************************************************************)
EXTENDS Integers, Sequences, FiniteSets, Functions

CONSTANTS
    Wires,          \* the streams: [proto, units]
    MaxPacket,      \* bound: bytes in a packet
    MaxData         \* tcp.TCP_MAX_DATA_IN_STREAM

\* Its kind, its bytes, a number it carries, the message it is part of (0: none
\* that is handed on), positions inside of it, and where it begins.
Unit == [what : STRING, len : Nat \ {0}, n : Nat, msg : Nat, inner : SUBSET Nat, at : Nat]

UnitsOf(w) == Range(w.units)
TotalOf(w) == LET u == w.units[Len(w.units)] IN u.at + u.len

\* The messages of a stream, first and last byte.
MessagesOf(w) ==
    [k \in {u.msg : u \in UnitsOf(w)} \ {0} |->
        LET own == {u \in UnitsOf(w) : u.msg = k}
            first == CHOOSE u \in own : \A v \in own : u.at <= v.at
            last  == CHOOSE u \in own : \A v \in own : v.at <= u.at
        IN <<first.at, last.at + last.len>>]

\* What the grammars of the protocols are made of: the first and the last unit of
\* a message, and one after which the message goes on with a unit of these kinds.
Opens(w, u)  == u.msg # 0 /\ u.at = MessagesOf(w)[u.msg][1]
Closes(w, u) == u.msg # 0 /\ u.at + u.len = MessagesOf(w)[u.msg][2]
Follows(v, u) == v.at = u.at + u.len
GoesOn(w, u, kinds) ==
    ~Closes(w, u) /\ \A v \in UnitsOf(w) : Follows(v, u) => v.what \in kinds

\* A parser can begin at a unit that is the first one of a message, or part of none.
\* The stream from there on:
EntryPoint(w, u) == u.msg = 0 \/ Opens(w, u)
Rest(w, u) ==
    LET i == CHOOSE j \in DOMAIN w.units : w.units[j].at = u.at
        before == Cardinality({w.units[j].msg : j \in 1 .. i - 1} \ {0})
    IN [w EXCEPT !.units =
           [j \in 1 .. Len(@) - i + 1 |->
               [@[i + j - 1] EXCEPT !.at = @ - u.at, !.msg = IF @ = 0 THEN 0 ELSE @ - before]]]

\* Units follow each other; messages are unbroken and numbered as they follow.  What
\* is left of a stream is a stream.
ASSUME WireAssumption ==
    /\ MaxPacket \in Nat \ {0} /\ MaxData \in Nat /\ MaxPacket <= MaxData
    /\ \A w \in Wires : \A u \in UnitsOf(w) : EntryPoint(w, u) => Rest(w, u) \in Wires
    /\ \A w \in Wires :
          /\ w.proto \in {"redis", "mysql", "http", "pgsql", "thrift"}
          /\ w.units \in Seq(Unit) /\ w.units # <<>> /\ w.units[1].at = 0
          /\ \A i \in 2 .. Len(w.units) : Follows(w.units[i], w.units[i - 1])
          /\ \A u, v \in UnitsOf(w) : u.at < v.at /\ v.msg # 0 => u.msg <= v.msg
          /\ \A k \in DOMAIN MessagesOf(w) :
                /\ 1 .. k \subseteq DOMAIN MessagesOf(w)
                /\ \A u \in UnitsOf(w) :
                      u.at \in MessagesOf(w)[k][1] .. MessagesOf(w)[k][2] - 1 => u.msg = k

VARIABLES
    wire,
    sent,           \* bytes captured
    base,
    offset,
    state,          \* s.parseState
    m,              \* stream.message
    parsing,        \* is Parse at work?
    ended,          \* "" or why the parser has lost or left the stream
    shipped         \* History: first and last byte of the messages handed on since the
                    \* parser last found its place

wireVars == <<wire, sent, base, offset, state, m, parsing, ended, shipped>>

Units == UnitsOf(wire)
Total == TotalOf(wire)
Messages == MessagesOf(wire)
Avail == sent - offset
UnitAt(o) == CHOOSE u \in Units : u.at = o
Here == UnitAt(offset)

\* n is the number the message was last told: a length or a count.
NoMessage == [there |-> FALSE, start |-> 0, end |-> 0, n |-> 0, received |-> 0, flags |-> {}]
NewMessage(b) == [NoMessage EXCEPT !.there = TRUE, !.start = b]

\* In these states a unit has to begin where the parser stands, and one that it can
\* make sense of there.
Strange(kind) ==
    \/ kind \in {"data", "body", "chunk"}
    \/ state = "start" /\ kind = "row"
    \/ state = "headers"
       /\ kind \notin {"header", "content-length", "chunked", "close", "folded", "end"}
    \/ state = "chunk-start" /\ kind = "request"
Lost ==
    /\ Avail > 0 /\ state \notin {"message", "body", "chunk"}
    /\ \A u \in Units : u.at = offset => Strange(u.what)

AtWork(proto) == wire.proto = proto /\ parsing /\ ended = "" /\ ~Lost

-------------------------------------------------------------------------------
(* What the parsers have in common.                                        *)

\* Parse appends the payload of a packet.
AppendPacket(len) ==
    /\ ~parsing /\ ended = "" /\ sent + len <= Total /\ sent + len - base <= MaxData
    /\ sent' = sent + len
    /\ m' = IF m.there THEN m ELSE NewMessage(base)
    /\ parsing' = TRUE
    /\ UNCHANGED <<wire, base, offset, state, ended, shipped>>

\* "Stream data too large, dropping TCP stream": the packet goes with the buffer.
AppendOverflows(len) ==
    /\ ~parsing /\ ended = "" /\ sent + len <= Total /\ sent + len - base > MaxData
    /\ sent' = sent + len /\ ended' = "overflow"
    /\ UNCHANGED <<wire, base, offset, state, m, parsing, shipped>>

\* The parser moves on by len bytes.
Advance(len, s, msg) ==
    /\ offset' = offset + len /\ state' = s /\ m' = msg
    /\ UNCHANGED <<wire, sent, base, parsing, ended, shipped>>

\* "wait for more": the parser stays at offset o.
Wait(o, s, msg) ==
    /\ offset' = o /\ state' = s /\ m' = msg
    /\ parsing' = FALSE
    /\ UNCHANGED <<wire, sent, base, ended, shipped>>
WaitHere == Wait(offset, state, m)

\* Nothing is left in the buffer of a message that is not complete.
EndOfData(proto) == AtWork(proto) /\ Avail = 0 /\ WaitHere

\* The message is complete: it is handed on unless it is of no interest, and
\* PrepareForNewMessage cuts the buffer after byte end.  more: does Parse go on
\* with the rest of the packet?
Ship(from, end, interesting, more) ==
    /\ shipped' = IF interesting THEN Append(shipped, <<from, end>>) ELSE shipped
    /\ base' = end /\ offset' = end /\ state' = "start"
    /\ parsing' = (more /\ end < sent)
    /\ m' = IF more /\ end < sent THEN NewMessage(end) ELSE NoMessage
    /\ UNCHANGED <<wire, sent, ended>>

\* "drop this tcp stream", or a panic that Parse recovers from.
EndStream(why) ==
    /\ ended' = why /\ parsing' = FALSE
    /\ UNCHANGED <<wire, sent, base, offset, state, m, shipped>>

\* A parser that is lost reads payload as structure; what it makes of that is not
\* followed.
Astray == parsing /\ ended = "" /\ Lost /\ EndStream("astray")

\* A panic while Parse is at work on the other direction: it recovers and returns
\* nil, and the buffers of both directions are gone.
OtherDirectionPanics ==
    /\ wire.proto \in {"mysql", "http", "thrift"} /\ ~parsing /\ ended = ""
    /\ EndStream("other")

\* "Will retry parsing with the next segment in it": a parser that has lost its place
\* may find it again where a message begins, in a later segment or, when its buffer
\* was not dropped, in this one.
RetryFinds(u) ==
    /\ ended \in {"rejected", "panicked", "overflow", "astray", "other"}
    /\ EntryPoint(wire, u) /\ u.at >= IF ended = "astray" THEN offset ELSE sent
    /\ wire' = Rest(wire, u)
    /\ sent' = 0 /\ base' = 0 /\ offset' = 0 /\ state' = "start"
    /\ m' = NoMessage /\ parsing' = FALSE /\ ended' = "" /\ shipped' = <<>>

WireInit ==
    /\ wire \in Wires
    /\ sent = 0 /\ base = 0 /\ offset = 0 /\ state = "start"
    /\ m = NoMessage /\ parsing = FALSE /\ ended = "" /\ shipped = <<>>

-------------------------------------------------------------------------------
Has(kind) == \E u \in Units : u.what = kind
In(w, k, kind) == \E u \in UnitsOf(w) : u.msg = k /\ u.what = kind
===============================================================================
