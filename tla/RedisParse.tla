------------------------------- MODULE RedisParse --------------------------------
(* The redis plugin: Parse takes message after message off the buffer      *)
(* (protos/redis/redis.go).  Anywhere but at the beginning of a message,   *)
(* redisMessageParser takes a line that begins with $, :, +, - or * for a  *)
(* reply or, when its first word is a command, for a request, and rejects  *)
(* the rest.                                                               *)
EXTENDS ParseBuffers

\* PrepareForNewMessage makes a new message with the Ts of the old one.
PrepareForNewMessage(k, d) == ts[k][d]

\* Parse: "all ok, go to next level", then on to the next message.  The parser
\* decides at the last byte of a message, so the end is one it had not seen.
ParseComplete ==
    /\ pc = "idle"
    /\ \E k \in Keys, d \in Dirs, kind \in Kinds, end \in 1 .. MaxPosition :
        /\ parsing = <<k, d>>
        /\ Complete(k, d, end, kind) /\ end > waited[k][d]
        /\ Ship(k, d, end, kind, PrepareForNewMessage(k, d))
    /\ UNCHANGED <<parsing, captured, pipelined>>

ParseReject ==
    /\ pc = "idle"
    /\ \E k \in Keys, d \in Dirs :
        parsing = <<k, d>> /\ Rejected(k, d) /\ RejectStream(k, d)

ParseWait ==
    /\ pc = "idle"
    /\ \E k \in Keys, d \in Dirs :
        parsing = <<k, d>> /\ Incomplete(k, d) /\ WaitForMore(k, d)

ParseStep == ParseComplete \/ ParseReject \/ ParseWait

\* The handlers of redis do not fail while they publish.
RedisHandlerStep ==
    /\ \/ RequestReuse \/ RequestOpen \/ RequestTimer
       \/ ResponseUnknown \/ ResponseFound \/ PublishTransaction
       \/ ResponseRemove \/ ResponseStop
    /\ UNCHANGED bufferVars

Next ==
    /\ ~crashed
    /\ \/ \E k \in Keys, d \in Dirs, len \in 1 .. MaxSegment : AppendPayload(k, d, len)
       \/ ParseStep
       \/ RedisHandlerStep
       \/ (\E t \in TransIds : TimerStep(t)) /\ UNCHANGED bufferVars
       \/ PublisherReceive /\ UNCHANGED bufferVars
       \/ RuntimeAbort /\ UNCHANGED bufferVars

Spec == PluginInit /\ [][Next]_pluginVars
===============================================================================
