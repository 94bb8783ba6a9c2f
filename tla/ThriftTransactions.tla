--------------------------- MODULE ThriftTransactions ----------------------------
(***************************************************************************)
(* The thrift plugin (protos/thrift/thrift.go) at the level of messages:   *)
(* the correlator, its PublishQueue, and the suspension of the reply       *)
(* direction when replies are not captured.                                *)
(*                                                                         *)
(* Calls of oneway methods have no reply.  The plugin does not know which  *)
(* methods are oneway: a call that is followed by another call, or by the  *)
(* end of the connection, before its reply was seen is taken for oneway    *)
(* and published without a reply.                                          *)
(*                                                                         *)
(* Messages get lost: Parse drops a buffer that is too long or cannot be   *)
(* read, a panic or a gap costs both directions.  What follows may begin   *)
(* in the middle of a message, and may be read as one that nobody sent.    *)
(*                                                                         *)
(* Goroutines: the sniffer (pc, msg, cur), publishTransactions             *)
(* (publishing), the timers, and the publisher of libbeat.  No lock.  That *)
(* the runtime may abort on concurrent accesses to transMap, as it may for *)
(* the map of SlotTransactions, is left out here: it only ends behaviours. *)
(***************************************************************************)
EXTENDS Integers, Sequences, SequencesExt

CONSTANTS
    Keys,           \* TCP streams
    Methods,        \* method names
    Oneway,         \* the methods that have no reply
    CaptureReply,   \* configuration: are replies parsed to their end?
    QueueCap,       \* capacity of PublishQueue (1000)
    ResultsCap,     \* capacity of the results channel
    MaxCalls,       \* bound: calls on a stream
    MaxLosses       \* bound: messages that Parse loses

ASSUME ThriftAssumption ==
    /\ Oneway \subseteq Methods
    /\ CaptureReply \in BOOLEAN
    /\ QueueCap \in Nat \ {0} /\ ResultsCap \in Nat \ {0} /\ MaxCalls \in Nat \ {0}
    /\ MaxLosses \in Nat

NoTrans == <<>>
\* A transaction is identified by its call: the n-th one of a stream.
Calls == Keys \X (1 .. MaxCalls)
\* The number of a reply that nobody sent.
Phantom == MaxCalls + 1
\* The direction of the client and that of the server.
Kinds == {"request", "reply"}
Other(dir) == IF dir = "request" THEN "reply" ELSE "request"

VARIABLES
    transMap,       \* open transaction of a stream, or NoTrans
    reply,          \* trans.Reply: 0, the call the reply answers, or Phantom
    timer,          \* transactions whose timer is running
    expiring,       \* transactions whose expireTransaction is about to run
    skipInput,      \* directions <<stream, kind>> that are suspended
    PublishQueue,
    publishing,     \* what publishTransactions works on, or NoTrans
    results,        \* events in the results channel
    pc, msg, cur,   \* the handler the sniffer goroutine is in
    sent,           \* methods called on each stream, in order
    answered,       \* newest call of each stream whose reply was captured
    closed,         \* directions <<stream, kind>> whose FIN was handled
    losses,
    \* History.
    queued,         \* all transactions sent to PublishQueue
    delivered,      \* all transactions sent to the results channel
    skipped,        \* replies that were not looked at
    pipelined,      \* calls sent before the reply to another one was there
    missed,         \* calls that were not handed to receivedRequest
    phantoms,       \* calls that nobody sent
    torn            \* directions that were read from the middle of a message

netVars == <<sent, answered, closed, losses>>
pastVars == <<skipped, pipelined, missed, phantoms, torn>>
queueVars == <<PublishQueue, publishing, results, queued, delivered>>
vars == <<transMap, reply, timer, expiring, skipInput, queueVars, pc, msg, cur,
          netVars, pastVars>>

-------------------------------------------------------------------------------
(* What the network shows, and Parse.                                      *)

\* Calls of stream k that still wait for a reply.
Unanswered(k) ==
    {n \in 1 .. Len(sent[k]) :
        n > answered[k] /\ sent[k][n] \notin Oneway /\ <<k, n>> \notin phantoms}

\* The next call of stream k.
NextCall(k) == <<k, Len(sent[k]) + 1>>

\* A call appears on stream k; a client that does not wait sends it while the rest of
\* a suspended reply is on its way.
Call(k, method, early) ==
    /\ Len(sent[k]) < MaxCalls
    /\ sent' = [sent EXCEPT ![k] = Append(@, method)]
    /\ pipelined' = IF Unanswered(k) = {} /\ ~early THEN pipelined
                    ELSE pipelined \cup {NextCall(k)}

\* The reply to the oldest waiting call of stream k appears.
Reply(k, n) ==
    /\ n \in Unanswered(k) /\ \A m \in Unanswered(k) : n <= m
    /\ answered' = [answered EXCEPT ![k] = n]

\* Mutant: the reply direction stays suspended.
ParseRequestKeepsSkip(k, method, early) ==
    /\ pc = "idle" /\ <<k, "request">> \notin closed \cup skipInput
    /\ early => <<k, "reply">> \in skipInput
    /\ Call(k, method, early)
    /\ torn' = IF early THEN torn \cup {<<k, "reply">>} ELSE torn
    /\ pc' = "request" /\ msg' = NextCall(k)
    /\ UNCHANGED <<transMap, reply, timer, expiring, queueVars, cur, answered, closed,
                   losses, skipped, missed, phantoms, skipInput>>

\* Parse completes a request; "enable the stream in the other direction to get
\* the reply".
ParseRequest(k, method, early) ==
    /\ pc = "idle" /\ <<k, "request">> \notin closed \cup skipInput
    /\ early => <<k, "reply">> \in skipInput
    /\ Call(k, method, early)
    /\ skipInput' = IF CaptureReply THEN skipInput ELSE skipInput \ {<<k, "reply">>}
    /\ torn' = IF early THEN torn \cup {<<k, "reply">>} ELSE torn
    /\ pc' = "request" /\ msg' = NextCall(k)
    /\ UNCHANGED <<transMap, reply, timer, expiring, queueVars, cur, answered, closed,
                   losses, skipped, missed, phantoms>>

\* The reply to call n is captured: "stream currently suspended in this
\* direction", or Parse completes it and suspends the direction.
ParseReply(k, n) ==
    /\ pc = "idle" /\ <<k, "reply">> \notin closed
    /\ Reply(k, n)
    /\ IF <<k, "reply">> \in skipInput
       THEN /\ skipped' = skipped \cup {<<k, n>>}
            /\ UNCHANGED <<pc, msg, skipInput>>
       ELSE /\ skipInput' = IF CaptureReply THEN skipInput ELSE skipInput \cup {<<k, "reply">>}
            /\ pc' = "reply" /\ msg' = <<k, n>>
            /\ UNCHANGED skipped
    /\ UNCHANGED <<transMap, reply, timer, expiring, queueVars, cur, sent, closed,
                   losses, pipelined, missed, phantoms, torn>>

\* A message in direction dir is lost: its buffer is dropped ("too large", or not ok)
\* with all of it or while its rest is on the way, or Parse panics or the stream has a
\* gap, which costs the buffers and the suspensions of both directions.
Lose(k, dir) ==
    /\ losses < MaxLosses /\ losses' = losses + 1
    /\ \/ UNCHANGED <<torn, skipInput>>
       \/ torn' = torn \cup {<<k, dir>>} /\ UNCHANGED skipInput
       \/ torn' = torn \cup ({k} \X Kinds) /\ skipInput' = skipInput \ ({k} \X Kinds)

\* A request that Parse does not hand on; in a suspended direction nothing is read.
MissRequest(k, method) ==
    /\ pc = "idle" /\ <<k, "request">> \notin closed
    /\ Call(k, method, FALSE)
    /\ missed' = missed \cup {NextCall(k)}
    /\ IF <<k, "request">> \in skipInput THEN UNCHANGED <<torn, skipInput, losses>>
       ELSE Lose(k, "request")
    /\ UNCHANGED <<transMap, reply, timer, expiring, queueVars, pc, msg, cur, answered,
                   closed, skipped, phantoms>>

\* A reply that Parse does not hand on.
MissReply(k, n) ==
    /\ pc = "idle" /\ <<k, "reply">> \notin closed \cup skipInput
    /\ Reply(k, n)
    /\ Lose(k, "reply")
    /\ UNCHANGED <<transMap, reply, timer, expiring, queueVars, pc, msg, cur, sent,
                   closed, skipped, pipelined, missed, phantoms>>

\* What Parse makes of the rest of a message: a request that nobody sent.
PhantomRequest(k, dir, method) ==
    /\ pc = "idle" /\ <<k, dir>> \in torn /\ <<k, dir>> \notin closed \cup skipInput
    /\ Call(k, method, FALSE)
    /\ phantoms' = phantoms \cup {NextCall(k)}
    /\ skipInput' = IF CaptureReply THEN skipInput ELSE skipInput \ {<<k, Other(dir)>>}
    /\ torn' = torn \cup ({<<k, Other(dir)>>} \cap skipInput)
    /\ pc' = "request" /\ msg' = NextCall(k)
    /\ UNCHANGED <<transMap, reply, timer, expiring, queueVars, cur, answered, closed, losses,
                   skipped, missed>>

\* The same: a reply that nobody sent, perhaps in the direction of the client, which it
\* suspends.
PhantomReply(k, dir) ==
    /\ pc = "idle" /\ <<k, dir>> \in torn /\ <<k, dir>> \notin closed \cup skipInput
    /\ skipInput' = IF CaptureReply THEN skipInput ELSE skipInput \cup {<<k, dir>>}
    /\ pc' = "reply" /\ msg' = <<k, Phantom>>
    /\ UNCHANGED <<transMap, reply, timer, expiring, queueVars, cur, netVars, pastVars>>

\* The FIN of the client or of the server.
ParseFin(k, kind) ==
    /\ pc = "idle" /\ <<k, kind>> \notin closed
    /\ closed' = closed \cup {<<k, kind>>}
    /\ pc' = "fin" /\ msg' = <<k, 1>>
    /\ UNCHANGED <<transMap, reply, timer, expiring, skipInput, queueVars, cur, sent,
                   answered, losses, pastVars>>

-------------------------------------------------------------------------------
(* The correlator.                                                         *)

\* The handler returns.
Return == pc' = "idle" /\ msg' = NoTrans /\ cur' = NoTrans

\* thrift.PublishQueue <- trans, which blocks while the queue is full.
Enqueue(t) ==
    /\ Len(PublishQueue) < QueueCap
    /\ PublishQueue' = Append(PublishQueue, t)
    /\ queued' = Append(queued, t)
    /\ UNCHANGED <<publishing, results, delivered>>

\* receivedRequest looks for an open transaction.
receivedRequestLookup ==
    /\ pc = "request"
    /\ cur' = transMap[msg[1]]
    /\ pc' = IF transMap[msg[1]] = NoTrans THEN "insert" ELSE "oneway"
    /\ UNCHANGED <<transMap, reply, timer, expiring, skipInput, queueVars, msg,
                   netVars, pastVars>>

\* "Two requests without reply, assuming the old one is oneway".
receivedRequestOneway ==
    /\ pc = "oneway"
    /\ Enqueue(cur)
    /\ pc' = "insert"
    /\ UNCHANGED <<transMap, reply, timer, expiring, skipInput, msg, cur, netVars, pastVars>>

\* receivedRequest: a new transaction, also when the old one's timer runs on.
receivedRequestInsert ==
    /\ pc = "insert"
    /\ transMap' = [transMap EXCEPT ![msg[1]] = msg]
    /\ pc' = "timer" /\ cur' = msg
    /\ UNCHANGED <<reply, timer, expiring, skipInput, queueVars, msg, netVars, pastVars>>

\* Mutant: no timer.
receivedRequestTimerNone ==
    /\ pc = "timer"
    /\ Return
    /\ UNCHANGED <<transMap, reply, timer, expiring, skipInput, queueVars, netVars, pastVars>>

receivedRequestTimer ==
    /\ pc = "timer"
    /\ timer' = timer \cup {cur}
    /\ Return
    /\ UNCHANGED <<transMap, reply, expiring, skipInput, queueVars, netVars, pastVars>>

\* Mutant: any reply closes the open transaction.
AnswersAny(t) == t # NoTrans

\* Does the reply in the handler have the method of transaction t?  One that nobody
\* sent may have any.
Answers(t) ==
    t # NoTrans /\ (msg[2] # Phantom => sent[t[1]][t[2]] = sent[msg[1]][msg[2]])

\* receivedReply: unknown transaction, or "Response from another request".
receivedReplyIgnore ==
    /\ pc = "reply"
    /\ ~ Answers(transMap[msg[1]]) \/ msg[2] = Phantom
    /\ Return
    /\ UNCHANGED <<transMap, reply, timer, expiring, skipInput, queueVars, netVars, pastVars>>

receivedReplyFound ==
    /\ pc = "reply"
    /\ Answers(transMap[msg[1]])
    /\ cur' = transMap[msg[1]]
    /\ reply' = [reply EXCEPT ![transMap[msg[1]]] = msg[2]]
    /\ pc' = "queue"
    /\ UNCHANGED <<transMap, timer, expiring, skipInput, queueVars, msg, netVars, pastVars>>

receivedReplyQueue ==
    /\ pc = "queue"
    /\ Enqueue(cur)
    /\ pc' = "remove"
    /\ UNCHANGED <<transMap, reply, timer, expiring, skipInput, msg, cur, netVars, pastVars>>

\* Mutant: the transaction stays open.
receivedReplyRemoveForgotten ==
    /\ pc = "remove"
    /\ pc' = "stop"
    /\ UNCHANGED <<transMap, reply, timer, expiring, skipInput, queueVars, msg, cur,
                   netVars, pastVars>>

\* receivedReply: the entry is set to nil; an expireTransaction may have removed
\* it in the meantime, then this brings it back.
receivedReplyRemove ==
    /\ pc = "remove"
    /\ transMap' = [transMap EXCEPT ![msg[1]] = NoTrans]
    /\ pc' = "stop"
    /\ UNCHANGED <<reply, timer, expiring, skipInput, queueVars, msg, cur,
                   netVars, pastVars>>

StopTimer ==
    /\ pc = "stop"
    /\ timer' = timer \ {cur}
    /\ Return
    /\ UNCHANGED <<transMap, reply, expiring, skipInput, queueVars, netVars, pastVars>>

\* ReceivedFin looks for a transaction without a reply.
ReceivedFinLookup ==
    /\ pc = "fin"
    /\ IF transMap[msg[1]] # NoTrans /\ reply[transMap[msg[1]]] = 0
       THEN cur' = transMap[msg[1]] /\ pc' = "last" /\ UNCHANGED msg
       ELSE Return
    /\ UNCHANGED <<transMap, reply, timer, expiring, skipInput, queueVars, netVars, pastVars>>

\* "FIN and had only one transaction. Assuming one way".
ReceivedFinOneway ==
    /\ pc = "last"
    /\ Enqueue(cur)
    /\ pc' = "delete"
    /\ UNCHANGED <<transMap, reply, timer, expiring, skipInput, msg, cur, netVars, pastVars>>

ReceivedFinDelete ==
    /\ pc = "delete"
    /\ transMap' = [transMap EXCEPT ![cur[1]] = NoTrans]
    /\ pc' = "stop"
    /\ UNCHANGED <<reply, timer, expiring, skipInput, queueVars, msg, cur,
                   netVars, pastVars>>

-------------------------------------------------------------------------------
(* Timers, publishTransactions and the publisher.                          *)

TimerFires(t) ==
    /\ t \in timer
    /\ timer' = timer \ {t}
    /\ expiring' = expiring \cup {t}
    /\ UNCHANGED <<transMap, reply, skipInput, queueVars, pc, msg, cur, netVars, pastVars>>

expireTransaction(t) ==
    /\ t \in expiring
    /\ expiring' = expiring \ {t}
    /\ transMap' = [transMap EXCEPT ![t[1]] = NoTrans]
    /\ UNCHANGED <<reply, timer, skipInput, queueVars, pc, msg, cur, netVars, pastVars>>

publishTransactionsTake ==
    /\ publishing = NoTrans /\ PublishQueue # <<>>
    /\ publishing' = Head(PublishQueue)
    /\ PublishQueue' = Tail(PublishQueue)
    /\ UNCHANGED <<transMap, reply, timer, expiring, skipInput, results, queued, delivered,
                   pc, msg, cur, netVars, pastVars>>

publishTransactionsSend ==
    /\ publishing # NoTrans
    /\ results < ResultsCap
    /\ results' = results + 1
    /\ delivered' = Append(delivered, publishing)
    /\ publishing' = NoTrans
    /\ UNCHANGED <<transMap, reply, timer, expiring, skipInput, PublishQueue, queued, pc,
                   msg, cur, netVars, pastVars>>

PublisherReceive ==
    /\ results > 0
    /\ results' = results - 1
    /\ UNCHANGED <<transMap, reply, timer, expiring, skipInput, PublishQueue, publishing,
                   queued, delivered, pc, msg, cur, netVars, pastVars>>

-------------------------------------------------------------------------------
Init ==
    /\ transMap = [k \in Keys |-> NoTrans]
    /\ reply = [t \in Calls |-> 0]
    /\ timer = {} /\ expiring = {} /\ skipInput = {}
    /\ PublishQueue = <<>> /\ publishing = NoTrans /\ results = 0
    /\ pc = "idle" /\ msg = NoTrans /\ cur = NoTrans
    /\ sent = [k \in Keys |-> <<>>]
    /\ answered = [k \in Keys |-> 0]
    /\ closed = {} /\ losses = 0
    /\ queued = <<>> /\ delivered = <<>> /\ skipped = {} /\ pipelined = {}
    /\ missed = {} /\ phantoms = {} /\ torn = {}

HandlerStep ==
    \/ receivedRequestLookup \/ receivedRequestOneway
    \/ receivedRequestInsert \/ receivedRequestTimer
    \/ receivedReplyIgnore \/ receivedReplyFound \/ receivedReplyQueue
    \/ receivedReplyRemove \/ StopTimer
    \/ ReceivedFinLookup \/ ReceivedFinOneway \/ ReceivedFinDelete

TimerStep(t) == TimerFires(t) \/ expireTransaction(t)
PublishStep == publishTransactionsTake \/ publishTransactionsSend

Next ==
    \/ \E k \in Keys :
        \/ \E method \in Methods, early \in BOOLEAN : ParseRequest(k, method, early)
        \/ \E method \in Methods : MissRequest(k, method)
        \/ \E n \in 1 .. MaxCalls : ParseReply(k, n) \/ MissReply(k, n)
        \/ \E dir \in Kinds : \/ ParseFin(k, dir)
                              \/ PhantomReply(k, dir)
                              \/ \E method \in Methods : PhantomRequest(k, dir, method)
    \/ HandlerStep
    \/ \E t \in Calls : TimerStep(t)
    \/ PublishStep
    \/ PublisherReceive

Spec == Init /\ [][Next]_vars

\* Runnable goroutines run, timers go off; the network need not send anything.
Fairness ==
    /\ WF_vars(HandlerStep)
    /\ \A t \in Calls : WF_vars(TimerStep(t))
    /\ WF_vars(PublishStep)
    /\ WF_vars(PublisherReceive)

FairSpec == Spec /\ Fairness

-------------------------------------------------------------------------------
(* Properties.                                                             *)

\* A transaction that is queued is queued once, by whichever of the three ways
\* (next request, reply, FIN) comes first, and timers change nothing about it.
QueuedOnce == IsInjective(queued)

\* A reply is published with the call it answers, or with one of the same method:
\* a later one if the client pipelines calls, an earlier one if the plugin never saw
\* the request.  A reply that nobody sent comes from the middle of a torn message.
ReplyAnswersCall ==
    \A t \in Calls : reply[t] \notin {0, t[2]} =>
        \/ reply[t] = Phantom /\ \E dir \in Kinds : <<t[1], dir>> \in torn
        \/ /\ sent[t[1]][reply[t]] = sent[t[1]][t[2]]
           /\ IF reply[t] < t[2] THEN t \in pipelined ELSE <<t[1], reply[t]>> \in missed

\* Suspending the reply direction costs only replies to pipelined calls and to calls
\* whose request was lost, as each other request lifts the suspension before its own
\* reply can arrive; and replies of a direction that was read from the middle of a
\* message, where a reply that nobody sent may suspend it.
NoReplySkipped ==
    \A t \in skipped : t \in pipelined \cup missed \/ <<t[1], "reply">> \in torn

\* Once the traffic stops, no transaction stays open and all that were queued
\* reach the results channel.
AllEnd == <>[](/\ \A k \in Keys : transMap[k] = NoTrans
               /\ delivered = queued)

===============================================================================
