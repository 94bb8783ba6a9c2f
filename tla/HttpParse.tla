-------------------------------- MODULE HttpParse --------------------------------
(* The http plugin (protos/http/http.go): Parse takes at most one message  *)
(* off the buffer for each packet, and the end of the connection ships the *)
(* message that is still being read.                                       *)
EXTENDS ParseBuffers

VARIABLE closed             \* directions whose FIN was handled

httpVars == <<pluginVars, closed>>

httpAppendPayload(k, d, len) ==
    /\ <<k, d>> \notin closed
    /\ AppendPayload(k, d, len)
    /\ UNCHANGED closed

\* Parse: "all ok, ship it", and PrepareForNewMessage leaves no message.
ParseComplete ==
    /\ pc = "idle"
    /\ \E k \in Keys, d \in Dirs, kind \in Kinds, end \in 1 .. MaxPosition :
        /\ parsing = <<k, d>>
        /\ Complete(k, d, end, kind)
        /\ Ship(k, d, end, kind, "none")
    /\ parsing' = NoStream
    /\ UNCHANGED <<captured, pipelined, closed>>

ParseReject ==
    /\ pc = "idle"
    /\ \E k \in Keys, d \in Dirs :
        parsing = <<k, d>> /\ Rejected(k, d) /\ RejectStream(k, d)
    /\ UNCHANGED closed

ParseWait ==
    /\ pc = "idle"
    /\ \E k \in Keys, d \in Dirs :
        parsing = <<k, d>> /\ Incomplete(k, d) /\ WaitForMore(k, d)
    /\ UNCHANGED closed

\* messageParser runs off the end of a first line that only looks like one.
messageParserPanic ==
    /\ pc = "idle"
    /\ \E k \in Keys, d \in Dirs :
        parsing = <<k, d>> /\ Rejected(k, d) /\ LoseStream(k)
    /\ UNCHANGED <<slotVars, closed>>

\* ReceivedFin with a message in the works: it is handled as it is, as a
\* response when its first line has not been read.  Its end is still 0, so
\* PrepareForNewMessage cuts nothing off the buffer.
ReceivedFinShip(k, d) ==
    /\ pc = "idle" /\ parsing = NoStream
    /\ <<k, d>> \notin closed
    /\ base[k][d] < captured[k][d] /\ ts[k][d] # "none"
    /\ \E kind \in Kinds :
        /\ Legible(k, d) => kind \in {WireKind(d), "response"}
        /\ Handle([key |-> k, dir |-> d, kind |-> kind, n |-> captured[k][d]])
        /\ Garbles(k, d = "client" \/ kind = "request")
    /\ ts' = [ts EXCEPT ![k][d] = "none"]
    /\ closed' = closed \cup {<<k, d>>}
    /\ UNCHANGED <<base, captured, waited, parsing, stamp, pipelined>>

\* ReceivedFin with nothing to send.
ReceivedFinNothing(k, d) ==
    /\ pc = "idle" /\ parsing = NoStream
    /\ <<k, d>> \notin closed
    /\ base[k][d] = captured[k][d] \/ ts[k][d] = "none"
    /\ closed' = closed \cup {<<k, d>>}
    /\ UNCHANGED pluginVars

receivedHttpRequest == RequestReuse \/ RequestOpen \/ RequestTimer
httpPublishTransaction == PublishTransaction
receivedHttpResponse ==
    ResponseUnknown \/ ResponseFound \/ httpPublishTransaction \/ ResponseRemove
    \/ ResponseStop
httpExpireTransaction(t) == expireTransaction(t)

Next ==
    /\ ~crashed
    /\ \/ \E k \in Keys, d \in Dirs :
             \/ \E len \in 1 .. MaxSegment : httpAppendPayload(k, d, len)
             \/ ReceivedFinShip(k, d) \/ ReceivedFinNothing(k, d)
       \/ ParseComplete \/ ParseReject \/ ParseWait \/ messageParserPanic
       \/ /\ \/ receivedHttpRequest \/ receivedHttpResponse
             \/ \E t \in TransIds : TimerFires(t) \/ httpExpireTransaction(t)
             \/ PublisherReceive \/ RuntimeAbort
          /\ UNCHANGED <<bufferVars, closed>>

Init == PluginInit /\ closed = {}
Spec == Init /\ [][Next]_httpVars

===============================================================================
