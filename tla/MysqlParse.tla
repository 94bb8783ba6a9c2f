------------------------------- MODULE MysqlParse --------------------------------
(* The mysql plugin (protos/mysql/mysql.go): like redis it takes message   *)
(* after message off the buffer, but it ignores all commands other than    *)
(* queries, rejects a message whose header is cut by the end of a packet,  *)
(* and may panic.  mysqlMessageParser has no test of what a header should  *)
(* look like: anywhere but at the beginning of a message it reads five     *)
(* bytes as one, and waits for, ignores or ships as many bytes as they     *)
(* say.                                                                    *)
EXTENDS ParseBuffers

CONSTANTS
    Ignored,        \* messages <<key, dir, i>> with IgnoreMessage
    ShortHeads      \* messages whose first part is less than the 5 byte header

\* mysqlMessageParser: "MySQL Message too short. Ignore it."
ShortHeader(k, d) ==
    /\ Legible(k, d)
    /\ captured[k][d] = base[k][d] + 1
    /\ <<k, d, Number(base[k][d] + 1)>> \in ShortHeads

\* IgnoreMessage, which is set where the parser has read a header.
IgnoreMessage(k, d, yes) ==
    Legible(k, d) => yes = (<<k, d, Number(base[k][d] + 1)>> \in Ignored)

\* PrepareForNewMessage leaves no message; Parse makes one with the time of the
\* packet if there are bytes left.
NextMessage(k, d, end) == IF end < captured[k][d] THEN "now" ELSE "none"

\* Parse: "all ok, ship it".
ParseComplete ==
    /\ pc = "idle"
    /\ \E k \in Keys, d \in Dirs, kind \in Kinds, end \in 1 .. MaxPosition :
        /\ parsing = <<k, d>>
        /\ Complete(k, d, end, kind) /\ IgnoreMessage(k, d, FALSE)
        /\ Ship(k, d, end, kind, NextMessage(k, d, end))
    /\ UNCHANGED <<parsing, captured, pipelined>>

\* Parse: a complete message that is of no interest.
ParseIgnore ==
    /\ pc = "idle"
    /\ \E k \in Keys, d \in Dirs, end \in 1 .. MaxPosition :
        /\ parsing = <<k, d>>
        /\ Complete(k, d, end, WireKind(d)) /\ IgnoreMessage(k, d, TRUE)
        /\ Cut(k, d, end, NextMessage(k, d, end))
        /\ Garbles(k, Misread(d, Legible(k, d), WireKind(d)))
    /\ UNCHANGED <<slotVars, parsing, captured, stamp, pipelined>>

\* "Unexpected MySQL message", an unreadable integer or string, or a short
\* header.
ParseReject ==
    /\ pc = "idle"
    /\ \E k \in Keys, d \in Dirs :
        /\ parsing = <<k, d>>
        /\ Rejected(k, d) \/ ShortHeader(k, d)
        /\ RejectStream(k, d)

ParseWait ==
    /\ pc = "idle"
    /\ \E k \in Keys, d \in Dirs :
        /\ parsing = <<k, d>>
        /\ Incomplete(k, d) /\ ~ShortHeader(k, d)
        /\ WaitForMore(k, d)

\* mysqlMessageParser runs off the end of the data, for one on a short ERR.
mysqlMessageParserPanic ==
    /\ pc = "idle"
    /\ \E k \in Keys, d \in Dirs :
        parsing = <<k, d>> /\ Rejected(k, d) /\ LoseStream(k)
    /\ UNCHANGED slotVars

receivedMysqlRequest == RequestReuse \/ RequestOpen \/ RequestTimer
publishMysqlTransaction == PublishTransaction
receivedMysqlResponse ==
    ResponseUnknown \/ ResponseFound \/ publishMysqlTransaction \/ ResponseRemove
    \/ ResponseStop

\* parseMysqlResponse runs off the end of the response.
parseMysqlResponsePanic == ResponsePanic /\ LoseStream(msg.key)

mysqlExpireTransaction(t) == expireTransaction(t)

Next ==
    /\ ~crashed
    /\ \/ \E k \in Keys, d \in Dirs, len \in 1 .. MaxSegment : AppendPayload(k, d, len)
       \/ ParseComplete \/ ParseIgnore \/ ParseReject \/ ParseWait
       \/ mysqlMessageParserPanic \/ parseMysqlResponsePanic
       \/ /\ \/ receivedMysqlRequest \/ receivedMysqlResponse
             \/ \E t \in TransIds : TimerFires(t) \/ mysqlExpireTransaction(t)
             \/ PublisherReceive \/ RuntimeAbort
          /\ UNCHANGED bufferVars

Spec == PluginInit /\ [][Next]_pluginVars
===============================================================================
