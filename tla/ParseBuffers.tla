------------------------------ MODULE ParseBuffers -------------------------------
(***************************************************************************)
(* What lies between the TCP streams and the correlator in the redis,      *)
(* mysql and http plugins: each direction of a stream has a buffer to      *)
(* which Parse appends the payload of a packet and from which the message  *)
(* parser takes messages.                                                  *)
(*                                                                         *)
(* Bytes are abstracted to parts: every message that is sent has two       *)
(* parts, and a packet carries a run of parts, so that messages are cut    *)
(* and glued by TCP in every possible way.  A part stands for any number   *)
(* of bytes.  The parsers know nothing of where messages begin: at the     *)
(* beginning of a message that they understand they find that message;     *)
(* everywhere else they read what happens to be there.                     *)
(***************************************************************************)
EXTENDS SlotTransactions

CONSTANTS
    Unreadable,     \* messages <<key, dir, i>> that are not read as they were sent
    MaxSegment      \* parts in a packet

ASSUME BufferAssumption == MaxSegment \in Nat \ {0} /\ MaxPosition > 1

NoStream == <<>>

\* The time of the latest packet, that of an earlier one, or no message yet.
Times == {"now", "earlier", "none"}

VARIABLES
    base,           \* the buffer of a direction holds the parts base + 1 ..
    captured,       \*   .. captured, those captured last
    waited,         \* how far the parser has looked and found no end
    ts,             \* stream.message.Ts, see Times
    parsing,        \* the buffer Parse is working on, or NoStream
    \* History.
    stamp,          \* Ts of the message in the handler, and when it began
    pipelined,      \* streams whose client did not wait for a response
    garbled         \* streams whose requests were not all read as sent

bufferVars == <<base, captured, waited, ts, parsing, stamp, pipelined, garbled>>
pluginVars == <<slotVars, bufferVars>>

-------------------------------------------------------------------------------
(* The network: the i-th message of a direction is its parts 2i - 1 and    *)
(* 2i.                                                                     *)

Number(p) == (p + 1) \div 2         \* the message that part p belongs to
Whole(p) == p \div 2                \* messages that end in the first p parts
WireKind(d) == IF d = "client" THEN "request" ELSE "response"

\* Nobody answers a request that was not sent.
Possible(sent) ==
    \A k \in Keys : Number(sent[k]["server"]) <= Whole(sent[k]["client"])

\* The client sent a request before the response to the one before was complete.
Ahead(sent) == {k \in Keys : Number(sent[k]["client"]) > Whole(sent[k]["server"]) + 1}

-------------------------------------------------------------------------------
(* What the message parsers find.                                          *)

\* The buffer begins with a message that is read as it was sent.
Legible(k, d) ==
    base[k][d] % 2 = 0 /\ <<k, d, base[k][d] \div 2 + 1>> \notin Unreadable

\* The parser may find a message of this kind that ends with this part.
Complete(k, d, end, kind) ==
    /\ end \in base[k][d] + 1 .. captured[k][d]
    /\ Legible(k, d) => end = base[k][d] + 2 /\ kind = WireKind(d)

\* The parser may want more data, or may not understand what it sees.
Incomplete(k, d) == Legible(k, d) => captured[k][d] < base[k][d] + 2
Rejected(k, d) == base[k][d] < captured[k][d] /\ ~Legible(k, d)

\* What the streams in garbled have in common: something of the client was not
\* taken for the request it is, or something of the server was taken for one.
Misread(d, asSent, kind) == IF d = "client" THEN ~asSent ELSE kind = "request"
Garbles(k, yes) == garbled' = IF yes THEN garbled \cup {k} ELSE garbled

-------------------------------------------------------------------------------
\* priv.Data[dir] = nil, with all parts up to p.
Dropped(k, d, p) ==
    /\ base' = [base EXCEPT ![k][d] = p]
    /\ waited' = [waited EXCEPT ![k][d] = p]
    /\ ts' = [ts EXCEPT ![k][d] = "none"]
    /\ parsing' = NoStream
    /\ Garbles(k, d = "client")

Aged == [k \in Keys |-> [d \in Dirs |-> IF ts[k][d] = "none" THEN "none" ELSE "earlier"]]

\* The next packet of a direction.
Captures(k, d, len) ==
    LET sent == [captured EXCEPT ![k][d] = @ + len] IN
    /\ pc = "idle" /\ parsing = NoStream
    /\ sent[k][d] <= MaxPosition /\ Possible(sent)
    /\ captured' = sent
    /\ pipelined' = pipelined \cup Ahead(sent)
    /\ stamp' = [ts |-> "none", began |-> "none"]
    /\ UNCHANGED slotVars

AppendFits(k, d, len) ==
    /\ Captures(k, d, len)
    /\ ts' = [Aged EXCEPT ![k][d] = IF @ = "none" THEN "now" ELSE @]
    /\ parsing' = <<k, d>>
    /\ UNCHANGED <<base, waited, garbled>>

\* "Stream data too large, dropping TCP stream": only when there was data
\* already.
AppendOverflows(k, d, len) ==
    /\ base[k][d] < captured[k][d]
    /\ Captures(k, d, len)
    /\ Dropped(k, d, captured[k][d] + len)

\* The beginning of Parse: the payload is appended to the buffer.
AppendPayload(k, d, len) == AppendFits(k, d, len) \/ AppendOverflows(k, d, len)

\* Mutant: what was handed on stays in the buffer.
CutUncut(k, d, end, next) ==
    /\ UNCHANGED base
    /\ waited' = [waited EXCEPT ![k][d] = base[k][d]]
    /\ ts' = [ts EXCEPT ![k][d] = next]

\* PrepareForNewMessage: what was read is cut off the buffer; next is what
\* becomes of stream.message.
Cut(k, d, end, next) ==
    /\ base' = [base EXCEPT ![k][d] = end]
    /\ waited' = [waited EXCEPT ![k][d] = end]
    /\ ts' = [ts EXCEPT ![k][d] = next]

\* A message is handed on and cut off the buffer.
Ship(k, d, end, kind, next) ==
    /\ Handle([key |-> k, dir |-> d, kind |-> kind, n |-> end])
    /\ stamp' = [ts |-> ts[k][d],
                 began |-> IF waited[k][d] = base[k][d] THEN "now" ELSE "earlier"]
    /\ Cut(k, d, end, next)
    /\ Garbles(k, Misread(d, Legible(k, d), kind))

\* "drop this tcp stream. Will retry parsing with the next segment in it"
RejectStream(k, d) ==
    /\ Dropped(k, d, captured[k][d])
    /\ UNCHANGED <<slotVars, captured, stamp, pipelined>>

\* "wait for more data"
WaitForMore(k, d) ==
    /\ parsing' = NoStream
    /\ waited' = [waited EXCEPT ![k][d] = captured[k][d]]
    /\ Garbles(k, d = "client" /\ Rejected(k, d))
    /\ UNCHANGED <<slotVars, base, captured, ts, stamp, pipelined>>

\* A message parser or handler panics: Parse recovers and returns nil, which
\* loses the buffers of both directions.
LoseStream(k) ==
    /\ base' = [base EXCEPT ![k] = captured[k]]
    /\ waited' = [waited EXCEPT ![k] = captured[k]]
    /\ ts' = [ts EXCEPT ![k] = [d \in Dirs |-> "none"]]
    /\ parsing' = NoStream
    /\ Garbles(k, TRUE)
    /\ UNCHANGED <<captured, stamp, pipelined>>

\* The capture of a stream may begin anywhere in a message; the messages are
\* counted from there.
PluginInit ==
    /\ SlotInit
    /\ captured \in [Keys -> [Dirs -> 0 .. 2]] /\ Possible(captured)
    /\ base = captured
    /\ waited = captured
    /\ ts = [k \in Keys |-> [d \in Dirs |-> "none"]]
    /\ parsing = NoStream
    /\ stamp = [ts |-> "none", began |-> "none"]
    /\ pipelined = {}
    /\ garbled = {}

-------------------------------------------------------------------------------
(* Properties of a plugin.                                                 *)

\* The published transactions are those of the wire: the response comes from the
\* server's answer to that request.
PairsMatch ==
    \A e \in published :
        \/ Number(e.request.n) = Number(e.response.n)
        \/ e.response.key \in pipelined \cup garbled

\* The time of a message is the time of the packet in which it began: a message
\* that begins in the latest packet does not carry the time of an earlier one.
MessageTimeIsPacketTime == pc \in Kinds => stamp.ts = stamp.began
===============================================================================
