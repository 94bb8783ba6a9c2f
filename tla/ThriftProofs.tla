------------------------------ MODULE ThriftProofs -------------------------------
(***************************************************************************)
(* Theorems about the thrift plugin, for any streams, methods and channel  *)
(* capacities, any number of calls, and with or without captured replies.  *)
(***************************************************************************)
EXTENDS ThriftTransactions, TLAPS

\* The handler holds a request that is not yet in transMap.
Opening == {"request", "oneway", "insert"}

\* What a handler may be given: a call, the reply to one, or one that nobody sent.
Messages == Keys \X (1 .. Phantom)

ThriftTypes ==
    /\ transMap \in [Keys -> Calls \cup {NoTrans}]
    /\ reply \in [Calls -> 0 .. Phantom]
    /\ sent \in [Keys -> Seq(Methods)]
    /\ \A k \in Keys : Len(sent[k]) <= MaxCalls
    /\ answered \in [Keys -> Nat]
    /\ queued \in Seq(Calls)
    /\ cur \in Calls \cup {NoTrans}
    /\ pc # "idle" => msg \in Messages
    /\ pc \in Opening => msg \in Calls

\* The open transaction of a stream is one of its calls and, while the handler opens
\* the newest one, an older one.
NewestOpen ==
    /\ \A k \in Keys : transMap[k] # NoTrans =>
        /\ transMap[k][1] = k
        /\ transMap[k][2] <= Len(sent[k])
        /\ pc \in Opening /\ msg[1] = k => transMap[k][2] < Len(sent[k])
    /\ pc \in Opening => msg[2] = Len(sent[msg[1]])

\* The transaction the handler is about to queue, or has just queued.
HandlerHolds ==
    /\ pc \in {"oneway", "queue", "last", "remove", "delete"} =>
        cur \in Calls /\ cur[1] = msg[1] /\ cur[2] <= Len(sent[msg[1]])
    /\ pc = "oneway" => cur[2] < Len(sent[msg[1]])

\* A transaction that was queued is still in transMap only until the handler that
\* queued it has taken it out.
QueuedIsClosed ==
    /\ \A i \in 1 .. Len(queued) :
        /\ queued[i][2] <= Len(sent[queued[i][1]])
        /\ pc \in Opening => queued[i] # msg
        /\ pc \in {"oneway", "queue", "last"} => queued[i] # cur
        /\ \A k \in Keys : transMap[k] = queued[i] =>
              msg[1] = k /\ pc \in {"insert", "remove", "delete"}

QueueInv == ThriftTypes /\ NewestOpen /\ HandlerHolds /\ QueuedIsClosed /\ QueuedOnce

-------------------------------------------------------------------------------
\* After an unanswered call, every call of the stream is pipelined; while the replies
\* of a stream are suspended its unanswered calls are, or were missed, unless the
\* suspension may come from a torn message.
PipelinedBehind ==
    /\ \A k \in Keys : \A n \in Unanswered(k) : \A m \in n + 1 .. Len(sent[k]) :
          <<k, m>> \in pipelined
    /\ \A k \in Keys : <<k, "reply">> \in skipInput /\ <<k, "reply">> \notin torn =>
          ~ CaptureReply /\ \A n \in Unanswered(k) : <<k, n>> \in pipelined \cup missed

\* All calls after the open transaction of a stream were missed, but for the one that
\* the handler is about to open.
MissedBehind ==
    \A k \in Keys : transMap[k] # NoTrans =>
        \A m \in transMap[k][2] + 1 .. Len(sent[k]) :
            <<k, m>> \in missed \/ (pc \in Opening /\ msg = <<k, m>>)

\* The calls after the one whose reply the handler holds are pipelined; a reply that
\* nobody sent comes from a torn message.
ReplyHeld ==
    /\ pc = "reply" /\ msg[2] = Phantom => \E dir \in Kinds : <<msg[1], dir>> \in torn
    /\ pc = "reply" /\ msg[2] # Phantom =>
        /\ msg[2] \in 1 .. Len(sent[msg[1]])
        /\ \A m \in msg[2] + 1 .. Len(sent[msg[1]]) : <<msg[1], m>> \in pipelined

\* A transaction with a reply is one whose call was sent, and so is the call that the
\* reply answers, unless nobody sent it.
RepliesPast ==
    \A t \in Calls : reply[t] # 0 =>
        /\ t[2] <= Len(sent[t[1]])
        /\ reply[t] # Phantom => reply[t] <= Len(sent[t[1]])
        /\ reply[t] = Phantom => \E dir \in Kinds : <<t[1], dir>> \in torn

RepliesInv ==
    /\ PipelinedBehind /\ MissedBehind /\ ReplyHeld /\ RepliesPast
    /\ NoReplySkipped /\ ReplyAnswersCall

-------------------------------------------------------------------------------
LEMMA CallIsPair ==
    ASSUME NEW t \in Calls
    PROVE  /\ t # NoTrans /\ t[1] \in Keys /\ t[2] \in 1 .. MaxCalls /\ t = <<t[1], t[2]>>
           /\ t \in Messages
BY ThriftAssumption DEF Calls, NoTrans, Messages, Phantom

LEMMA MessageIsPair ==
    ASSUME NEW t \in Messages
    PROVE  t # NoTrans /\ t[1] \in Keys /\ t[2] \in 1 .. Phantom /\ t = <<t[1], t[2]>>
BY DEF Messages, NoTrans

LEMMA AppendNew ==
    ASSUME NEW S, NEW s \in Seq(S), NEW e \in S, IsInjective(s),
           \A i \in 1 .. Len(s) : s[i] # e
    PROVE  IsInjective(Append(s, e))
<1>1. /\ DOMAIN s = 1 .. Len(s) /\ DOMAIN Append(s, e) = 1 .. Len(s) + 1
      /\ \A i \in 1 .. Len(s) : Append(s, e)[i] = s[i]
      /\ Append(s, e)[Len(s) + 1] = e
    OBVIOUS
<1> QED BY <1>1 DEF IsInjective

\* Sending another call: the older ones keep their place.
LEMMA SentGrows ==
    ASSUME ThriftTypes, NEW k \in Keys, NEW method \in Methods, Len(sent[k]) < MaxCalls,
           sent' = [sent EXCEPT ![k] = Append(@, method)]
    PROVE  /\ sent' \in [Keys -> Seq(Methods)]
           /\ Len(sent'[k]) = Len(sent[k]) + 1
           /\ \A j \in Keys \ {k} : sent'[j] = sent[j]
           /\ \A j \in Keys : /\ Len(sent[j]) \in Nat /\ Len(sent'[j]) \in Nat
                              /\ Len(sent[j]) <= Len(sent'[j]) /\ Len(sent'[j]) <= MaxCalls
                              /\ \A n \in 1 .. Len(sent[j]) : sent'[j][n] = sent[j][n]
<1>1. sent \in [Keys -> Seq(Methods)] /\ sent[k] \in Seq(Methods)
    BY DEF ThriftTypes
<1>2. sent'[k] = Append(sent[k], method) /\ \A j \in Keys \ {k} : sent'[j] = sent[j]
    BY <1>1
<1>3. /\ Append(sent[k], method) \in Seq(Methods)
      /\ Len(Append(sent[k], method)) = Len(sent[k]) + 1
      /\ \A n \in 1 .. Len(sent[k]) : Append(sent[k], method)[n] = sent[k][n]
    BY <1>1
<1>4. \A j \in Keys : Len(sent[j]) \in Nat /\ Len(sent[j]) <= MaxCalls
    BY <1>1 DEF ThriftTypes
<1>5. sent' \in [Keys -> Seq(Methods)]
    BY <1>1, <1>3
<1> QED BY <1>2, <1>3, <1>4, <1>5, ThriftAssumption

\* The lengths that the steps below compare.
LEMMA Lengths ==
    ASSUME ThriftTypes
    PROVE  \A k \in Keys : Len(sent[k]) \in Nat
BY DEF ThriftTypes
-------------------------------------------------------------------------------
(* The queue.                                                              *)

LEMMA QueueInit == Init => QueueInv
<1> SUFFICES ASSUME Init PROVE QueueInv
    OBVIOUS
<1>1. ThriftTypes
    BY ThriftAssumption DEF Init, ThriftTypes, Opening, Phantom
<1>2. NewestOpen /\ HandlerHolds /\ QueuedIsClosed /\ QueuedOnce
    BY DEF Init, NewestOpen, HandlerHolds, QueuedIsClosed, QueuedOnce, Opening, NoTrans, IsInjective
<1> QED BY <1>1, <1>2 DEF QueueInv

\* A request is parsed, or made up: its call is newer than all that were queued.
LEMMA RequestKeepsQueue ==
    ASSUME QueueInv, NEW k \in Keys, NEW method \in Methods,
           \/ \E early \in BOOLEAN : ParseRequest(k, method, early)
           \/ \E dir \in Kinds : PhantomRequest(k, dir, method)
    PROVE  QueueInv'
<1> USE CallIsPair, ThriftAssumption
<1>1. /\ pc = "idle" /\ Len(sent[k]) < MaxCalls
      /\ sent' = [sent EXCEPT ![k] = Append(@, method)]
      /\ pc' = "request" /\ msg' = <<k, Len(sent[k]) + 1>>
      /\ transMap' = transMap /\ reply' = reply /\ cur' = cur /\ answered' = answered
      /\ queued' = queued
    BY DEF ParseRequest, PhantomRequest, Call, NextCall, queueVars
<1>2. /\ sent' \in [Keys -> Seq(Methods)]
      /\ Len(sent'[k]) = Len(sent[k]) + 1
      /\ \A j \in Keys \ {k} : sent'[j] = sent[j]
      /\ \A j \in Keys : /\ Len(sent[j]) \in Nat /\ Len(sent'[j]) \in Nat
                         /\ Len(sent[j]) <= Len(sent'[j]) /\ Len(sent'[j]) <= MaxCalls
    BY <1>1, SentGrows DEF QueueInv
<1>3. msg' \in Calls /\ msg'[1] = k /\ msg'[2] = Len(sent'[k])
    BY <1>1, <1>2 DEF Calls
<1>4. ThriftTypes'
    BY <1>1, <1>2, <1>3 DEF QueueInv, ThriftTypes
<1>5. NewestOpen'
  <2> SUFFICES ASSUME NEW j \in Keys, transMap[j] # NoTrans
               PROVE  /\ transMap[j][1] = j
                      /\ transMap[j][2] <= Len(sent'[j])
                      /\ j = k => transMap[j][2] < Len(sent'[j])
      BY <1>1, <1>3 DEF NewestOpen, Opening
  <2>1. transMap[j] \in Calls
      BY DEF QueueInv, ThriftTypes
  <2>2. transMap[j][1] = j /\ transMap[j][2] <= Len(sent[j])
      BY <1>1 DEF QueueInv, NewestOpen, Opening
  <2> QED BY <2>1, <2>2, <1>2
<1>6. HandlerHolds'
    BY <1>1 DEF HandlerHolds
<1>7. QueuedIsClosed'
  <2> SUFFICES ASSUME NEW i \in 1 .. Len(queued)
               PROVE  /\ queued[i][2] <= Len(sent'[queued[i][1]])
                      /\ queued[i] # msg'
                      /\ \A j \in Keys : transMap[j] # queued[i]
      BY <1>1 DEF QueuedIsClosed, Opening
  <2>1. queued[i] \in Calls
      BY DEF QueueInv, ThriftTypes
  <2>2. queued[i][2] <= Len(sent[queued[i][1]])
      BY DEF QueueInv, QueuedIsClosed
  <2>3. \A j \in Keys : transMap[j] # queued[i]
      BY <1>1 DEF QueueInv, QueuedIsClosed
  <2> QED BY <2>1, <2>2, <2>3, <1>2, <1>3
<1>8. QueuedOnce'
    BY <1>1 DEF QueueInv, QueuedOnce
<1> QED BY <1>4, <1>5, <1>6, <1>7, <1>8 DEF QueueInv

\* A request that is not handed on only makes its stream longer.
LEMMA MissedKeepsQueue ==
    ASSUME QueueInv, NEW k \in Keys, NEW method \in Methods, MissRequest(k, method)
    PROVE  QueueInv'
<1> USE CallIsPair, ThriftAssumption
<1>1. /\ pc = "idle" /\ pc' = "idle" /\ Len(sent[k]) < MaxCalls
      /\ sent' = [sent EXCEPT ![k] = Append(@, method)]
      /\ transMap' = transMap /\ reply' = reply /\ cur' = cur /\ answered' = answered
      /\ queued' = queued /\ msg' = msg
    BY DEF MissRequest, Call, queueVars
<1>2. /\ sent' \in [Keys -> Seq(Methods)]
      /\ \A j \in Keys : /\ Len(sent[j]) \in Nat /\ Len(sent'[j]) \in Nat
                         /\ Len(sent[j]) <= Len(sent'[j]) /\ Len(sent'[j]) <= MaxCalls
    BY <1>1, SentGrows DEF QueueInv
<1>3. ThriftTypes'
    BY <1>1, <1>2 DEF QueueInv, ThriftTypes, Opening
<1>4. NewestOpen'
  <2> SUFFICES ASSUME NEW j \in Keys, transMap[j] # NoTrans
               PROVE  transMap[j][1] = j /\ transMap[j][2] <= Len(sent'[j])
      BY <1>1 DEF NewestOpen, Opening
  <2>1. transMap[j] \in Calls
      BY DEF QueueInv, ThriftTypes
  <2>2. transMap[j][1] = j /\ transMap[j][2] <= Len(sent[j])
      BY DEF QueueInv, NewestOpen
  <2> QED BY <2>1, <2>2, <1>2
<1>5. HandlerHolds'
    BY <1>1 DEF HandlerHolds
<1>6. QueuedIsClosed'
  <2> SUFFICES ASSUME NEW i \in 1 .. Len(queued)
               PROVE  /\ queued[i][2] <= Len(sent'[queued[i][1]])
                      /\ \A j \in Keys : transMap[j] # queued[i]
      BY <1>1 DEF QueuedIsClosed, Opening
  <2>1. queued[i] \in Calls
      BY DEF QueueInv, ThriftTypes
  <2>2. queued[i][2] <= Len(sent[queued[i][1]])
      BY DEF QueueInv, QueuedIsClosed
  <2>3. \A j \in Keys : transMap[j] # queued[i]
      BY <1>1 DEF QueueInv, QueuedIsClosed
  <2> QED BY <2>1, <2>2, <2>3, <1>2
<1>7. QueuedOnce'
    BY <1>1 DEF QueueInv, QueuedOnce
<1> QED BY <1>3, <1>4, <1>5, <1>6, <1>7 DEF QueueInv

\* Steps that leave the streams and the queue alone.
LEMMA ParsingKeepsQueue ==
    ASSUME QueueInv,
           \/ \E k \in Keys, n \in 1 .. MaxCalls : ParseReply(k, n) \/ MissReply(k, n)
           \/ \E k \in Keys, dir \in Kinds : PhantomReply(k, dir) \/ ParseFin(k, dir)
    PROVE  QueueInv'
<1>1. /\ pc = "idle" /\ pc' \in {"idle", "reply", "fin"}
      /\ sent' = sent /\ transMap' = transMap /\ reply' = reply /\ cur' = cur
      /\ queued' = queued
    BY DEF ParseReply, MissReply, PhantomReply, ParseFin, queueVars, netVars
<1>2. answered' \in [Keys -> Nat] /\ (msg' \in Messages \/ pc' = "idle")
  <2>1. ASSUME NEW k \in Keys, NEW n \in 1 .. MaxCalls, ParseReply(k, n) \/ MissReply(k, n)
        PROVE  <1>2!:
    <3>1. answered' = [answered EXCEPT ![k] = n] /\ answered \in [Keys -> Nat]
        BY <2>1 DEF ParseReply, MissReply, Reply, QueueInv, ThriftTypes
    <3>2. pc' = "idle" \/ msg' = <<k, n>>
        BY <2>1, <1>1 DEF ParseReply, MissReply
    <3> QED BY <3>1, <3>2, ThriftAssumption DEF Messages, Phantom
  <2>2. ASSUME NEW k \in Keys, NEW dir \in Kinds, PhantomReply(k, dir) \/ ParseFin(k, dir)
        PROVE  <1>2!:
      BY <2>2, ThriftAssumption
      DEF PhantomReply, ParseFin, QueueInv, ThriftTypes, Messages, Phantom, netVars
  <2> QED BY <2>1, <2>2
<1>3. ThriftTypes'
    BY <1>1, <1>2 DEF QueueInv, ThriftTypes, Opening
<1>4. NewestOpen' /\ HandlerHolds' /\ QueuedIsClosed' /\ QueuedOnce'
    BY <1>1 DEF QueueInv, NewestOpen, HandlerHolds, QueuedIsClosed, QueuedOnce, Opening
<1> QED BY <1>3, <1>4 DEF QueueInv

\* receivedRequest, step by step, without the queueing.
LEMMA RequestLookupKeepsQueue == QueueInv /\ receivedRequestLookup => QueueInv'
<1> SUFFICES ASSUME QueueInv, receivedRequestLookup PROVE QueueInv'
    OBVIOUS
<1> USE CallIsPair
<1>1. /\ pc = "request" /\ cur' = transMap[msg[1]]
      /\ pc' = IF transMap[msg[1]] = NoTrans THEN "insert" ELSE "oneway"
      /\ transMap' = transMap /\ reply' = reply /\ msg' = msg /\ sent' = sent
      /\ answered' = answered /\ queued' = queued
    BY DEF receivedRequestLookup, queueVars, netVars
<1>2. msg \in Calls /\ msg[1] \in Keys /\ cur' \in Calls \cup {NoTrans}
    BY <1>1 DEF QueueInv, ThriftTypes, Opening
<1>3. ThriftTypes'
    BY <1>1, <1>2 DEF QueueInv, ThriftTypes, Opening
<1>4. NewestOpen'
    BY <1>1 DEF QueueInv, NewestOpen, Opening
<1>5. HandlerHolds'
    BY <1>1, <1>2 DEF QueueInv, NewestOpen, HandlerHolds, Opening
<1>6. QueuedIsClosed'
    BY <1>1, <1>2 DEF QueueInv, QueuedIsClosed, Opening
<1>7. QueuedOnce'
    BY <1>1 DEF QueueInv, QueuedOnce
<1> QED BY <1>3, <1>4, <1>5, <1>6, <1>7 DEF QueueInv

LEMMA RequestInsertKeepsQueue == QueueInv /\ receivedRequestInsert => QueueInv'
<1> SUFFICES ASSUME QueueInv, receivedRequestInsert PROVE QueueInv'
    OBVIOUS
<1> USE CallIsPair
<1>1. /\ pc = "insert" /\ pc' = "timer" /\ cur' = msg
      /\ transMap' = [transMap EXCEPT ![msg[1]] = msg]
      /\ reply' = reply /\ msg' = msg /\ sent' = sent
      /\ answered' = answered /\ queued' = queued
    BY DEF receivedRequestInsert, queueVars, netVars
<1>2. msg \in Calls /\ msg[1] \in Keys /\ msg[2] = Len(sent[msg[1]])
    BY <1>1 DEF QueueInv, ThriftTypes, NewestOpen, Opening
<1>3. /\ transMap' \in [Keys -> Calls \cup {NoTrans}]
      /\ transMap'[msg[1]] = msg
      /\ \A k \in Keys \ {msg[1]} : transMap'[k] = transMap[k]
    BY <1>1, <1>2 DEF QueueInv, ThriftTypes
<1>4. ThriftTypes'
    BY <1>1, <1>2, <1>3 DEF QueueInv, ThriftTypes, Opening
<1>5. NewestOpen'
  <2> SUFFICES ASSUME NEW k \in Keys, transMap'[k] # NoTrans
               PROVE  /\ transMap'[k][1] = k
                      /\ transMap'[k][2] <= Len(sent[k])
      BY <1>1, Lengths DEF NewestOpen, Opening, QueueInv
  <2>1. CASE k = msg[1]
      BY <2>1, <1>2, <1>3, Lengths DEF QueueInv
  <2>2. CASE k # msg[1]
      BY <2>2, <1>1, <1>3 DEF QueueInv, NewestOpen
  <2> QED BY <2>1, <2>2
<1>6. HandlerHolds'
    BY <1>1 DEF HandlerHolds
<1>7. QueuedIsClosed'
  <2> SUFFICES ASSUME NEW i \in 1 .. Len(queued)
               PROVE  /\ queued[i][2] <= Len(sent[queued[i][1]])
                      /\ \A k \in Keys : transMap'[k] # queued[i]
      BY <1>1 DEF QueuedIsClosed, Opening
  <2>1. queued[i][2] <= Len(sent[queued[i][1]]) /\ queued[i] # msg
      BY <1>1 DEF QueueInv, QueuedIsClosed, Opening
  <2>2. \A k \in Keys \ {msg[1]} : transMap[k] # queued[i]
      BY DEF QueueInv, QueuedIsClosed
  <2> QED BY <2>1, <2>2, <1>3
<1>8. QueuedOnce'
    BY <1>1 DEF QueueInv, QueuedOnce
<1> QED BY <1>4, <1>5, <1>6, <1>7, <1>8 DEF QueueInv
\* A transaction is queued, on behalf of the next request, of the reply or of a FIN.
LEMMA EnqueueKeepsQueue ==
    ASSUME QueueInv, receivedRequestOneway \/ receivedReplyQueue \/ ReceivedFinOneway
    PROVE  QueueInv'
<1> USE CallIsPair, MessageIsPair
<1>1. /\ \/ pc = "oneway" /\ pc' = "insert"
         \/ pc = "queue" /\ pc' = "remove"
         \/ pc = "last" /\ pc' = "delete"
      /\ queued' = Append(queued, cur)
      /\ transMap' = transMap /\ reply' = reply /\ msg' = msg /\ cur' = cur /\ sent' = sent
      /\ answered' = answered
    BY DEF receivedRequestOneway, receivedReplyQueue, ReceivedFinOneway, Enqueue, netVars
<1>2. /\ msg \in Messages /\ cur \in Calls /\ cur[1] = msg[1] /\ cur[2] <= Len(sent[msg[1]])
      /\ pc = "oneway" => cur[2] < Len(sent[msg[1]])
      /\ \A i \in 1 .. Len(queued) : queued[i] # cur
    BY <1>1 DEF QueueInv, ThriftTypes, HandlerHolds, QueuedIsClosed
<1>3. /\ queued \in Seq(Calls) /\ queued' \in Seq(Calls)
      /\ Len(queued') = Len(queued) + 1 /\ Len(queued) \in Nat
      /\ \A i \in 1 .. Len(queued) : queued'[i] = queued[i]
      /\ queued'[Len(queued) + 1] = cur
    BY <1>1, <1>2 DEF QueueInv, ThriftTypes
<1>4. ThriftTypes'
    BY <1>1, <1>2, <1>3 DEF QueueInv, ThriftTypes, Opening
<1>5. NewestOpen'
    BY <1>1 DEF QueueInv, NewestOpen, Opening
<1>6. HandlerHolds'
    BY <1>1, <1>2 DEF QueueInv, HandlerHolds
<1>7. QueuedIsClosed'
  <2> SUFFICES ASSUME NEW i \in 1 .. Len(queued) + 1
               PROVE  /\ queued'[i][2] <= Len(sent[queued'[i][1]])
                      /\ pc' = "insert" => queued'[i] # msg
                      /\ \A k \in Keys : transMap[k] = queued'[i] => msg[1] = k
      BY <1>1, <1>3 DEF QueuedIsClosed, Opening
  <2>1. CASE i \in 1 .. Len(queued)
    <3>1. /\ queued[i][2] <= Len(sent[queued[i][1]])
          /\ pc = "oneway" => queued[i] # msg
          /\ \A k \in Keys : transMap[k] = queued[i] => msg[1] = k
        BY <2>1 DEF QueueInv, QueuedIsClosed, Opening
    <3> QED BY <3>1, <2>1, <1>3, <1>1
  <2>2. CASE i = Len(queued) + 1
    <3>1. queued'[i] = cur
        BY <2>2, <1>3
    <3>2. pc' = "insert" => cur # msg
        BY <1>1, <1>2, Lengths DEF QueueInv, NewestOpen, Opening
    <3>3. \A k \in Keys : transMap[k] = cur => msg[1] = k
        BY <1>2 DEF QueueInv, NewestOpen
    <3> QED BY <3>1, <3>2, <3>3, <1>2
  <2> QED BY <2>1, <2>2, <1>3
<1>8. QueuedOnce'
    BY <1>1, <1>2, <1>3, AppendNew DEF QueueInv, QueuedOnce
<1> QED BY <1>4, <1>5, <1>6, <1>7, <1>8 DEF QueueInv

\* An entry of transMap is cleared, by the handler or by a timer.
LEMMA ClearingKeepsQueue ==
    ASSUME QueueInv,
           \/ receivedReplyRemove \/ ReceivedFinDelete
           \/ \E t \in Calls : expireTransaction(t)
    PROVE  QueueInv'
<1> USE CallIsPair, MessageIsPair
<1> DEFINE Clears(k) ==
        /\ transMap' = [transMap EXCEPT ![k] = NoTrans]
        /\ \/ pc \in {"remove", "delete"} /\ pc' = "stop" /\ k = msg[1]
           \/ pc' = pc
        /\ reply' = reply /\ msg' = msg /\ cur' = cur /\ sent' = sent
        /\ answered' = answered /\ queued' = queued
<1>1. PICK k \in Keys : Clears(k)
  <2>1. CASE receivedReplyRemove
      BY <2>1 DEF receivedReplyRemove, QueueInv, ThriftTypes, queueVars, netVars
  <2>2. CASE ReceivedFinDelete
      BY <2>2 DEF ReceivedFinDelete, QueueInv, ThriftTypes, HandlerHolds, queueVars, netVars
  <2>3. ASSUME NEW t \in Calls, expireTransaction(t)
        PROVE  t[1] \in Keys /\ Clears(t[1])
      BY <2>3 DEF expireTransaction, queueVars, netVars
  <2> QED BY <2>1, <2>2, <2>3
<1>2. /\ transMap' \in [Keys -> Calls \cup {NoTrans}]
      /\ transMap'[k] = NoTrans
      /\ \A j \in Keys \ {k} : transMap'[j] = transMap[j]
    BY <1>1 DEF QueueInv, ThriftTypes
<1>3. ThriftTypes'
    BY <1>1, <1>2 DEF QueueInv, ThriftTypes, Opening
<1>4. NewestOpen'
    BY <1>1, <1>2 DEF QueueInv, NewestOpen, Opening
<1>5. HandlerHolds'
    BY <1>1 DEF QueueInv, HandlerHolds
<1>6. QueuedIsClosed'
  <2> SUFFICES ASSUME NEW i \in 1 .. Len(queued)
               PROVE  /\ queued[i][2] <= Len(sent[queued[i][1]])
                      /\ pc' \in Opening => queued[i] # msg
                      /\ pc' \in {"oneway", "queue", "last"} => queued[i] # cur
                      /\ \A j \in Keys : transMap'[j] = queued[i] =>
                            msg[1] = j /\ pc' \in {"insert", "remove", "delete"}
      BY <1>1 DEF QueuedIsClosed
  <2>1. /\ queued[i][2] <= Len(sent[queued[i][1]])
        /\ pc \in Opening => queued[i] # msg
        /\ pc \in {"oneway", "queue", "last"} => queued[i] # cur
        /\ \A j \in Keys : transMap[j] = queued[i] =>
              msg[1] = j /\ pc \in {"insert", "remove", "delete"}
      BY DEF QueueInv, QueuedIsClosed
  <2>2. queued[i] # NoTrans
      BY DEF QueueInv, ThriftTypes
  <2> QED BY <2>1, <2>2, <1>1, <1>2 DEF Opening
<1>7. QueuedOnce'
    BY <1>1 DEF QueueInv, QueuedOnce
<1> QED BY <1>3, <1>4, <1>5, <1>6, <1>7 DEF QueueInv

\* The handler takes the open transaction of its stream in hand.
LEMMA FindingKeepsQueue ==
    ASSUME QueueInv, receivedReplyFound \/ (ReceivedFinLookup /\ pc' = "last")
    PROVE  QueueInv'
<1> USE CallIsPair, MessageIsPair
<1>1. /\ pc \in {"reply", "fin"} /\ cur' = transMap[msg[1]]
      /\ pc' \in {"queue", "last"} /\ cur' # NoTrans
      /\ transMap' = transMap /\ msg' = msg /\ sent' = sent
      /\ answered' = answered /\ queued' = queued
    BY DEF receivedReplyFound, Answers, ReceivedFinLookup, Return, queueVars, netVars
<1>2. /\ msg \in Messages /\ msg[1] \in Keys /\ msg[2] \in 1 .. Phantom
      /\ cur' \in Calls \cup {NoTrans}
    BY <1>1 DEF QueueInv, ThriftTypes
<1>3. reply' \in [Calls -> 0 .. Phantom]
  <2>1. reply \in [Calls -> 0 .. Phantom] /\ msg[2] \in 0 .. Phantom
      BY <1>2, ThriftAssumption DEF QueueInv, ThriftTypes, Phantom
  <2>2. CASE receivedReplyFound
      BY <2>1, <2>2 DEF receivedReplyFound
  <2>3. CASE ReceivedFinLookup
      BY <2>1, <2>3 DEF ReceivedFinLookup
  <2> QED BY <2>2, <2>3
<1>4. ThriftTypes'
    BY <1>1, <1>2, <1>3 DEF QueueInv, ThriftTypes, Opening
<1>5. NewestOpen'
    BY <1>1 DEF QueueInv, NewestOpen, Opening
<1>6. HandlerHolds'
    BY <1>1, <1>2 DEF QueueInv, NewestOpen, HandlerHolds
<1>7. QueuedIsClosed'
    BY <1>1, <1>2 DEF QueueInv, QueuedIsClosed, Opening
<1>8. QueuedOnce'
    BY <1>1 DEF QueueInv, QueuedOnce
<1> QED BY <1>4, <1>5, <1>6, <1>7, <1>8 DEF QueueInv

\* Everything else leaves the streams, transMap and the queue as they are.
LEMMA RestKeepsQueue ==
    ASSUME QueueInv,
           \/ receivedRequestTimer \/ receivedReplyIgnore \/ StopTimer
           \/ ReceivedFinLookup /\ pc' # "last"
           \/ \E t \in Calls : TimerFires(t)
           \/ PublishStep \/ PublisherReceive \/ UNCHANGED vars
    PROVE  QueueInv'
<1>1. /\ \/ /\ pc \in {"timer", "reply", "stop", "fin"}
            /\ pc' = "idle" /\ msg' = NoTrans /\ cur' = NoTrans
         \/ pc' = pc /\ msg' = msg /\ cur' = cur
      /\ transMap' = transMap /\ reply' = reply /\ sent' = sent
      /\ answered' = answered /\ queued' = queued
  <2>1. CASE receivedRequestTimer \/ receivedReplyIgnore \/ StopTimer
      BY <2>1 DEF receivedRequestTimer, receivedReplyIgnore, StopTimer, Return, queueVars, netVars
  <2>2. CASE ReceivedFinLookup /\ pc' # "last"
      BY <2>2 DEF ReceivedFinLookup, Return, queueVars, netVars
  <2>3. CASE \E t \in Calls : TimerFires(t)
      BY <2>3 DEF TimerFires, queueVars, netVars
  <2>4. CASE PublishStep \/ PublisherReceive \/ UNCHANGED vars
      BY <2>4 DEF PublishStep, publishTransactionsTake, publishTransactionsSend,
                  PublisherReceive, vars, queueVars, netVars
  <2> QED BY <2>1, <2>2, <2>3, <2>4
<1>2. ThriftTypes'
    BY <1>1 DEF QueueInv, ThriftTypes, Opening
<1>3. NewestOpen' /\ HandlerHolds' /\ QueuedIsClosed' /\ QueuedOnce'
  <2>1. CASE pc' = pc /\ msg' = msg /\ cur' = cur
      BY <1>1, <2>1 DEF QueueInv, NewestOpen, HandlerHolds, QueuedIsClosed, QueuedOnce, Opening
  <2>2. CASE pc \in {"timer", "reply", "stop", "fin"} /\ pc' = "idle"
      BY <1>1, <2>2 DEF QueueInv, NewestOpen, HandlerHolds, QueuedIsClosed, QueuedOnce, Opening
  <2> QED BY <1>1, <2>1, <2>2
<1> QED BY <1>2, <1>3 DEF QueueInv

LEMMA QueueStep == QueueInv /\ [Next]_vars => QueueInv'
<1> SUFFICES ASSUME QueueInv, [Next]_vars PROVE QueueInv'
    OBVIOUS
<1>1. CASE HandlerStep
    BY <1>1, RequestLookupKeepsQueue, RequestInsertKeepsQueue, EnqueueKeepsQueue,
       ClearingKeepsQueue, FindingKeepsQueue, RestKeepsQueue DEF HandlerStep
<1>2. ASSUME NEW t \in Calls, TimerStep(t) PROVE QueueInv'
    BY <1>2, ClearingKeepsQueue, RestKeepsQueue DEF TimerStep
<1>3. CASE PublishStep \/ PublisherReceive \/ UNCHANGED vars
    BY <1>3, RestKeepsQueue
<1> QED BY <1>1, <1>2, <1>3, RequestKeepsQueue, MissedKeepsQueue, ParsingKeepsQueue DEF Next

\* However the next request, the reply, a FIN and the timers interleave, a call is
\* sent to PublishQueue at most once.
THEOREM ThriftQueuedOnce == Spec => []QueuedOnce
<1>1. QueueInv => QueuedOnce
    BY DEF QueueInv
<1> QED BY <1>1, QueueInit, QueueStep, PTL DEF Spec
-------------------------------------------------------------------------------
(* The replies.                                                            *)

LEMMA RepliesInit == Init => RepliesInv
BY DEF Init, RepliesInv, PipelinedBehind, MissedBehind, ReplyHeld, RepliesPast, NoReplySkipped,
       ReplyAnswersCall, Unanswered

\* A call appears, read, lost or made up.  One sent behind an unanswered call is
\* recorded as pipelined; if the suspension of its replies stays, it was missed or
\* nobody waits for a reply.
LEMMA CallKeepsReplies ==
    ASSUME QueueInv, RepliesInv, NEW k \in Keys, NEW method \in Methods, NEW early \in BOOLEAN,
           Call(k, method, early), pc = "idle", pc' # "reply",
           reply' = reply, answered' = answered, transMap' = transMap, skipped' = skipped,
           missed \subseteq missed', phantoms \subseteq phantoms', torn \subseteq torn',
           NextCall(k) \in missed' \/ (pc' = "request" /\ msg' = NextCall(k)),
           \A j \in Keys : <<j, "reply">> \in skipInput' /\ <<j, "reply">> \notin torn' =>
                /\ <<j, "reply">> \in skipInput
                /\ j = k => NextCall(k) \in missed' \cup phantoms'
    PROVE  RepliesInv'
<1> USE CallIsPair, ThriftAssumption
<1>1. /\ Len(sent[k]) < MaxCalls
      /\ pipelined' = IF Unanswered(k) = {} /\ ~early THEN pipelined
                      ELSE pipelined \cup {<<k, Len(sent[k]) + 1>>}
      /\ sent' = [sent EXCEPT ![k] = Append(@, method)]
    BY DEF Call, NextCall
<1>2. /\ Len(sent'[k]) = Len(sent[k]) + 1
      /\ \A j \in Keys \ {k} : sent'[j] = sent[j]
      /\ \A j \in Keys : /\ Len(sent[j]) \in Nat /\ Len(sent'[j]) \in Nat
                         /\ Len(sent[j]) <= Len(sent'[j])
                         /\ \A n \in 1 .. Len(sent[j]) : sent'[j][n] = sent[j][n]
    BY <1>1, SentGrows DEF QueueInv
<1>3. /\ pipelined \subseteq pipelined'
      /\ Unanswered(k) # {} => <<k, Len(sent'[k])>> \in pipelined'
      /\ NextCall(k) = <<k, Len(sent'[k])>>
    BY <1>1, <1>2 DEF NextCall
<1>4. /\ \A j \in Keys \ {k} : Unanswered(j)' \subseteq Unanswered(j)
      /\ Unanswered(k)' \subseteq Unanswered(k) \cup {Len(sent'[k])}
      /\ NextCall(k) \in phantoms' => Unanswered(k)' \subseteq Unanswered(k)
  <2>1. ASSUME NEW j \in Keys, NEW n \in Unanswered(j)', j # k \/ n # Len(sent'[k])
        PROVE  n \in Unanswered(j)
    <3>1. /\ n \in 1 .. Len(sent'[j]) /\ n > answered[j] /\ sent'[j][n] \notin Oneway
          /\ <<j, n>> \notin phantoms
        BY <2>1 DEF Unanswered
    <3>2. n \in 1 .. Len(sent[j])
        BY <3>1, <2>1, <1>2
    <3>3. sent'[j][n] = sent[j][n]
        BY <3>2, <1>2
    <3> QED BY <3>1, <3>2, <3>3 DEF Unanswered
  <2>2. NextCall(k) \in phantoms' => Len(sent'[k]) \notin Unanswered(k)'
      BY <1>3 DEF Unanswered
  <2> QED BY <2>1, <2>2
<1>5. PipelinedBehind'
  <2>1. ASSUME NEW j \in Keys, NEW n \in Unanswered(j)', NEW m \in n + 1 .. Len(sent'[j])
        PROVE  <<j, m>> \in pipelined'
    <3>1. n \in Int /\ n <= Len(sent'[j])
        BY <1>2 DEF Unanswered
    <3>2. CASE m <= Len(sent[j])
      <4>1. m \in n + 1 .. Len(sent[j]) /\ (j = k => n # Len(sent'[k]))
          BY <3>1, <3>2, <1>2
      <4>2. n \in Unanswered(j)
          BY <4>1, <1>4
      <4> QED BY <4>1, <4>2, <1>3 DEF RepliesInv, PipelinedBehind
    <3>3. CASE m > Len(sent[j])
      <4>1. j = k /\ m = Len(sent'[k])
          BY <3>1, <3>3, <1>2
      <4>2. n \in Unanswered(k)
          BY <4>1, <3>1, <1>2, <1>4
      <4> QED BY <4>1, <4>2, <1>3
    <3> QED BY <3>1, <3>2, <3>3, <1>2
  <2>2. ASSUME NEW j \in Keys, <<j, "reply">> \in skipInput', <<j, "reply">> \notin torn'
        PROVE  ~ CaptureReply /\ \A n \in Unanswered(j)' : <<j, n>> \in pipelined' \cup missed'
    <3>1. <<j, "reply">> \in skipInput /\ <<j, "reply">> \notin torn
        BY <2>2
    <3>2. ~ CaptureReply /\ \A n \in Unanswered(j) : <<j, n>> \in pipelined \cup missed
        BY <3>1 DEF RepliesInv, PipelinedBehind
    <3>3. j = k => NextCall(k) \in missed' \cup phantoms'
        BY <2>2
    <3> QED BY <3>2, <3>3, <1>3, <1>4
  <2> QED BY <2>1, <2>2 DEF PipelinedBehind
<1>6. MissedBehind'
  <2> SUFFICES ASSUME NEW j \in Keys, transMap[j] # NoTrans,
                      NEW m \in transMap[j][2] + 1 .. Len(sent'[j])
               PROVE  <<j, m>> \in missed' \/ (pc' \in Opening /\ msg' = <<j, m>>)
      BY DEF MissedBehind
  <2>1. transMap[j][2] \in Nat
      BY DEF QueueInv, ThriftTypes
  <2>2. CASE m <= Len(sent[j])
      BY <2>1, <2>2, <1>2 DEF RepliesInv, MissedBehind, Opening
  <2>3. CASE m > Len(sent[j])
    <3>1. <<j, m>> = NextCall(k)
        BY <2>1, <2>3, <1>2, <1>3
    <3> QED BY <3>1 DEF Opening
  <2> QED BY <2>1, <2>2, <2>3, <1>2
<1>7. ReplyHeld'
    BY DEF ReplyHeld
<1>8. ASSUME NEW t \in Calls, reply[t] # 0
      PROVE  /\ t[1] \in Keys /\ t[2] \in 1 .. Len(sent[t[1]]) /\ t[2] <= Len(sent'[t[1]])
             /\ sent'[t[1]][t[2]] = sent[t[1]][t[2]]
             /\ reply[t] # Phantom =>
                    /\ reply[t] \in 1 .. Len(sent[t[1]]) /\ reply[t] <= Len(sent'[t[1]])
                    /\ sent'[t[1]][reply[t]] = sent[t[1]][reply[t]]
  <2>1. t[2] <= Len(sent[t[1]]) /\ (reply[t] # Phantom => reply[t] <= Len(sent[t[1]]))
      BY <1>8 DEF RepliesInv, RepliesPast
  <2>2. t[1] \in Keys /\ t[2] \in 1 .. MaxCalls /\ reply[t] \in 1 .. Phantom
      BY <1>8 DEF QueueInv, ThriftTypes, Phantom
  <2>3. t[2] \in 1 .. Len(sent[t[1]]) /\ (reply[t] # Phantom => reply[t] \in 1 .. Len(sent[t[1]]))
      BY <2>1, <2>2, <1>2 DEF Phantom
  <2>4. Len(sent[t[1]]) <= Len(sent'[t[1]]) /\ Len(sent[t[1]]) \in Nat /\ Len(sent'[t[1]]) \in Nat
      BY <2>2, <1>2
  <2>5. \A n \in 1 .. Len(sent[t[1]]) : sent'[t[1]][n] = sent[t[1]][n]
      BY <2>2, <1>2
  <2> QED BY <2>2, <2>3, <2>4, <2>5
<1>9. RepliesPast'
    BY <1>8 DEF RepliesPast, RepliesInv
<1>10. ReplyAnswersCall'
  <2> SUFFICES ASSUME NEW t \in Calls, reply[t] \notin {0, t[2]}
               PROVE  \/ reply[t] = Phantom /\ \E dir \in Kinds : <<t[1], dir>> \in torn'
                      \/ /\ sent'[t[1]][reply[t]] = sent'[t[1]][t[2]]
                         /\ IF reply[t] < t[2] THEN t \in pipelined'
                                               ELSE <<t[1], reply[t]>> \in missed'
      BY DEF ReplyAnswersCall
  <2>1. \/ reply[t] = Phantom /\ \E dir \in Kinds : <<t[1], dir>> \in torn
        \/ /\ sent[t[1]][reply[t]] = sent[t[1]][t[2]]
           /\ IF reply[t] < t[2] THEN t \in pipelined ELSE <<t[1], reply[t]>> \in missed
      BY DEF RepliesInv, ReplyAnswersCall
  <2>2. CASE reply[t] = Phantom /\ \E dir \in Kinds : <<t[1], dir>> \in torn
      BY <2>2
  <2>3. CASE reply[t] # Phantom
      BY <2>1, <2>3, <1>3, <1>8
  <2>4. reply[t] = Phantom => \E dir \in Kinds : <<t[1], dir>> \in torn
      BY DEF RepliesInv, RepliesPast
  <2> QED BY <2>2, <2>3, <2>4
<1>11. NoReplySkipped'
    BY <1>3 DEF NoReplySkipped, RepliesInv
<1> QED BY <1>5, <1>6, <1>7, <1>9, <1>10, <1>11 DEF RepliesInv

\* The requests: read, missed and made up.
LEMMA RequestKeepsReplies ==
    ASSUME QueueInv, RepliesInv, NEW k \in Keys, NEW method \in Methods,
           \/ \E early \in BOOLEAN : ParseRequest(k, method, early)
           \/ MissRequest(k, method)
           \/ \E dir \in Kinds : PhantomRequest(k, dir, method)
    PROVE  RepliesInv'
<1>1. ASSUME NEW early \in BOOLEAN, ParseRequest(k, method, early) PROVE RepliesInv'
  <2>1. /\ Call(k, method, early) /\ pc = "idle" /\ pc' = "request" /\ msg' = NextCall(k)
        /\ reply' = reply /\ answered' = answered /\ transMap' = transMap /\ skipped' = skipped
        /\ missed' = missed /\ phantoms' = phantoms /\ torn \subseteq torn'
        /\ skipInput' = IF CaptureReply THEN skipInput ELSE skipInput \ {<<k, "reply">>}
      BY <1>1 DEF ParseRequest
  <2>2. ASSUME NEW j \in Keys, <<j, "reply">> \in skipInput', <<j, "reply">> \notin torn'
        PROVE  <<j, "reply">> \in skipInput /\ j # k
    <3>1. <<j, "reply">> \in skipInput /\ <<j, "reply">> \notin torn
        BY <2>1, <2>2
    <3>2. ~ CaptureReply
        BY <3>1 DEF RepliesInv, PipelinedBehind
    <3> QED BY <2>1, <2>2, <3>1, <3>2
  <2> QED BY <2>1, <2>2, CallKeepsReplies
<1>2. CASE MissRequest(k, method)
  <2>1. /\ Call(k, method, FALSE) /\ pc = "idle" /\ pc' = "idle" /\ NextCall(k) \in missed'
        /\ reply' = reply /\ answered' = answered /\ transMap' = transMap /\ skipped' = skipped
        /\ missed \subseteq missed' /\ phantoms' = phantoms
      BY <1>2 DEF MissRequest
  <2>2. torn \subseteq torn' /\ skipInput' \subseteq skipInput
      BY <1>2 DEF MissRequest, Lose
  <2> QED BY <2>1, <2>2, CallKeepsReplies
<1>3. ASSUME NEW dir \in Kinds, PhantomRequest(k, dir, method) PROVE RepliesInv'
  <2>1. /\ Call(k, method, FALSE) /\ pc = "idle" /\ pc' = "request" /\ msg' = NextCall(k)
        /\ reply' = reply /\ answered' = answered /\ transMap' = transMap /\ skipped' = skipped
        /\ missed' = missed /\ phantoms \subseteq phantoms' /\ NextCall(k) \in phantoms'
        /\ torn \subseteq torn' /\ skipInput' \subseteq skipInput
      BY <1>3 DEF PhantomRequest
  <2> QED BY <2>1, CallKeepsReplies
<1> QED BY <1>1, <1>2, <1>3

\* A reply appears, read, skipped or lost; what it leaves unanswered is pipelined.
LEMMA ReplyKeepsReplies ==
    ASSUME QueueInv, RepliesInv, NEW k \in Keys, NEW n \in 1 .. MaxCalls,
           ParseReply(k, n) \/ MissReply(k, n)
    PROVE  RepliesInv'
<1> USE CallIsPair, ThriftAssumption
<1>1. /\ n \in Unanswered(k) /\ pc = "idle"
      /\ answered' = [answered EXCEPT ![k] = n]
      /\ reply' = reply /\ sent' = sent /\ pipelined' = pipelined /\ missed' = missed
      /\ phantoms' = phantoms /\ transMap' = transMap
    BY DEF ParseReply, MissReply, Reply
<1>2. /\ torn \subseteq torn'
      /\ pc' = "idle" \/ (pc' = "reply" /\ msg' = <<k, n>>)
      /\ \/ skipped' = skipped
         \/ skipped' = skipped \cup {<<k, n>>} /\ <<k, "reply">> \in skipInput
      /\ \A j \in Keys : <<j, "reply">> \in skipInput' /\ <<j, "reply">> \notin torn' =>
            <<j, "reply">> \in skipInput \/ (j = k /\ ~CaptureReply)
  <2>1. CASE ParseReply(k, n)
      BY <2>1 DEF ParseReply
  <2>2. CASE MissReply(k, n)
      BY <2>2 DEF MissReply, Lose
  <2> QED BY <2>1, <2>2
<1>3. n \in 1 .. Len(sent[k]) /\ n > answered[k] /\ Len(sent[k]) \in Nat
    BY <1>1, Lengths DEF Unanswered, QueueInv
<1>4. \A m \in n + 1 .. Len(sent[k]) : <<k, m>> \in pipelined
    BY <1>1 DEF RepliesInv, PipelinedBehind
<1>5. /\ \A j \in Keys \ {k} : Unanswered(j)' = Unanswered(j)
      /\ \A m \in Unanswered(k)' : m \in Unanswered(k) /\ m \in n + 1 .. Len(sent[k])
  <2>1. answered \in [Keys -> Nat] /\ answered'[k] = n /\ \A j \in Keys \ {k} : answered'[j] = answered[j]
      BY <1>1 DEF QueueInv, ThriftTypes
  <2>2. answered[k] \in Nat
      BY <2>1
  <2> QED BY <2>1, <2>2, <1>1, <1>3 DEF Unanswered
<1>6. PipelinedBehind'
  <2>1. ASSUME NEW j \in Keys, NEW i \in Unanswered(j)', NEW m \in i + 1 .. Len(sent[j])
        PROVE  <<j, m>> \in pipelined
    <3>1. i \in Unanswered(j)
        BY <1>5
    <3> QED BY <3>1 DEF RepliesInv, PipelinedBehind
  <2>2. ASSUME NEW j \in Keys, <<j, "reply">> \in skipInput', <<j, "reply">> \notin torn'
        PROVE  ~ CaptureReply /\ \A i \in Unanswered(j)' : <<j, i>> \in pipelined \cup missed
    <3>1. <<j, "reply">> \in skipInput => ~ CaptureReply
        BY <2>2, <1>2 DEF RepliesInv, PipelinedBehind
    <3>2. <<j, "reply">> \in skipInput \/ (j = k /\ ~CaptureReply)
        BY <2>2, <1>2
    <3>3. CASE j = k
        BY <3>1, <3>2, <3>3, <1>4, <1>5
    <3>4. CASE j # k
        BY <2>2, <3>2, <3>4, <1>2, <1>5 DEF RepliesInv, PipelinedBehind
    <3> QED BY <3>3, <3>4
  <2> QED BY <2>1, <2>2, <1>1 DEF PipelinedBehind
<1>7. MissedBehind'
    BY <1>1 DEF RepliesInv, MissedBehind, Opening
<1>8. ReplyHeld'
  <2>1. n # Phantom /\ Phantom' = Phantom
      BY DEF Phantom
  <2>2. CASE pc' = "idle"
      BY <2>2 DEF ReplyHeld
  <2>3. CASE pc' = "reply" /\ msg' = <<k, n>>
    <3>1. msg'[1] = k /\ msg'[2] = n /\ sent' = sent /\ pipelined' = pipelined
        BY <2>3, <1>1
    <3>2. msg'[2] # Phantom'
        BY <3>1, <2>1
    <3>3. msg'[2] \in 1 .. Len(sent'[msg'[1]])
        BY <3>1, <1>3
    <3>4. \A m \in msg'[2] + 1 .. Len(sent'[msg'[1]]) : <<msg'[1], m>> \in pipelined'
        BY <3>1, <1>4
    <3> QED BY <3>2, <3>3, <3>4 DEF ReplyHeld
  <2> QED BY <2>2, <2>3, <1>2
<1>9. RepliesPast' /\ ReplyAnswersCall'
    BY <1>1, <1>2 DEF RepliesInv, RepliesPast, ReplyAnswersCall
<1>10. NoReplySkipped'
  <2>1. <<k, "reply">> \in skipInput => <<k, n>> \in pipelined \cup missed \/ <<k, "reply">> \in torn
      BY <1>1 DEF RepliesInv, PipelinedBehind
  <2>2. \A t \in skipped : t \in pipelined \cup missed \/ <<t[1], "reply">> \in torn
      BY DEF RepliesInv, NoReplySkipped
  <2>3. CASE skipped' = skipped
      BY <2>2, <2>3, <1>1, <1>2 DEF NoReplySkipped
  <2>4. CASE skipped' = skipped \cup {<<k, n>>} /\ <<k, "reply">> \in skipInput
    <3>1. <<k, n>>[1] = k
        OBVIOUS
    <3> QED BY <2>1, <2>2, <2>4, <3>1, <1>1, <1>2 DEF NoReplySkipped
  <2> QED BY <2>3, <2>4, <1>2
<1> QED BY <1>6, <1>7, <1>8, <1>9, <1>10 DEF RepliesInv

\* A reply that nobody sent suspends a direction that is torn.
LEMMA PhantomKeepsReplies ==
    ASSUME QueueInv, RepliesInv, NEW k \in Keys, NEW dir \in Kinds, PhantomReply(k, dir)
    PROVE  RepliesInv'
<1>1. /\ pc = "idle" /\ <<k, dir>> \in torn /\ pc' = "reply" /\ msg' = <<k, Phantom>>
      /\ skipInput' \subseteq skipInput \cup {<<k, dir>>}
      /\ reply' = reply /\ sent' = sent /\ answered' = answered /\ transMap' = transMap
      /\ pipelined' = pipelined /\ missed' = missed /\ phantoms' = phantoms /\ torn' = torn
      /\ skipped' = skipped
    BY DEF PhantomReply, netVars, pastVars
<1>2. PipelinedBehind'
  <2>1. \A j \in Keys : Unanswered(j)' = Unanswered(j)
      BY <1>1 DEF Unanswered
  <2>2. \A j \in Keys : <<j, "reply">> \in skipInput' /\ <<j, "reply">> \notin torn =>
            <<j, "reply">> \in skipInput
      BY <1>1
  <2> QED BY <2>1, <2>2, <1>1 DEF RepliesInv, PipelinedBehind
<1>3. MissedBehind'
    BY <1>1 DEF RepliesInv, MissedBehind, Opening
<1>4. ReplyHeld'
    BY <1>1 DEF ReplyHeld
<1>5. RepliesPast' /\ ReplyAnswersCall' /\ NoReplySkipped'
    BY <1>1 DEF RepliesInv, RepliesPast, ReplyAnswersCall, NoReplySkipped
<1> QED BY <1>2, <1>3, <1>4, <1>5 DEF RepliesInv

\* receivedReply stores the reply in the newest call of the stream that it has seen.
LEMMA FoundKeepsReplies ==
    ASSUME QueueInv, RepliesInv, receivedReplyFound
    PROVE  RepliesInv'
<1> USE CallIsPair, ThriftAssumption
<1> DEFINE t == transMap[msg[1]]
           k == msg[1]
           r == msg[2]
<1>1. /\ pc = "reply" /\ pc' = "queue" /\ t # NoTrans
      /\ r # Phantom => sent[t[1]][t[2]] = sent[k][r]
      /\ reply' = [reply EXCEPT ![t] = r]
      /\ skipInput' = skipInput /\ sent' = sent /\ answered' = answered
      /\ pipelined' = pipelined /\ skipped' = skipped /\ missed' = missed
      /\ phantoms' = phantoms /\ torn' = torn /\ transMap' = transMap
    BY DEF receivedReplyFound, Answers, netVars, pastVars
<1>2. k \in Keys /\ r \in 1 .. Phantom /\ t \in Calls
  <2>1. msg \in Messages
      BY <1>1 DEF QueueInv, ThriftTypes
  <2>2. k \in Keys /\ r \in 1 .. Phantom
      BY <2>1, MessageIsPair
  <2>3. transMap \in [Keys -> Calls \cup {NoTrans}]
      BY DEF QueueInv, ThriftTypes
  <2> QED BY <2>2, <2>3, <1>1
<1>3. t[1] = k /\ t[2] <= Len(sent[k]) /\ t[2] \in 1 .. MaxCalls /\ t = <<k, t[2]>>
    BY <1>1, <1>2 DEF QueueInv, NewestOpen
<1>4. Len(sent[k]) \in Nat
    BY <1>2, Lengths DEF QueueInv
<1>5. \A m \in t[2] + 1 .. Len(sent[k]) : <<k, m>> \in missed
  <2>1. pc \notin Opening
      BY <1>1 DEF Opening
  <2>2. MissedBehind
      BY DEF RepliesInv
  <2> QED BY <1>1, <1>2, <2>1, <2>2 DEF MissedBehind
<1>6. /\ r = Phantom => \E dir \in Kinds : <<k, dir>> \in torn
      /\ r # Phantom => /\ r \in 1 .. Len(sent[k])
                        /\ \A m \in r + 1 .. Len(sent[k]) : <<k, m>> \in pipelined
    BY <1>1 DEF RepliesInv, ReplyHeld
<1>7. /\ reply'[t] = r
      /\ \A u \in Calls \ {t} : reply'[u] = reply[u]
    BY <1>1, <1>2 DEF QueueInv, ThriftTypes
<1> HIDE DEF t, k, r
<1>8. r # Phantom /\ r # t[2] =>
        IF r < t[2] THEN t \in pipelined ELSE <<k, r>> \in missed
  <2> SUFFICES ASSUME r # Phantom, r # t[2]
               PROVE  IF r < t[2] THEN t \in pipelined ELSE <<k, r>> \in missed
      OBVIOUS
  <2>1. r \in 1 .. Len(sent[k])
      BY <1>6
  <2>2. CASE r < t[2]
    <3>1. t[2] \in r + 1 .. Len(sent[k])
        BY <2>1, <2>2, <1>3, <1>4
    <3> QED BY <2>2, <3>1, <1>3, <1>6
  <2>3. CASE ~(r < t[2])
    <3>1. r \in t[2] + 1 .. Len(sent[k])
        BY <2>1, <2>3, <1>3, <1>4
    <3> QED BY <2>3, <3>1, <1>5
  <2> QED BY <2>2, <2>3
<1>9. RepliesPast'
  <2> SUFFICES ASSUME NEW u \in Calls, reply'[u] # 0
               PROVE  /\ u[2] <= Len(sent[u[1]])
                      /\ reply'[u] # Phantom => reply'[u] <= Len(sent[u[1]])
                      /\ reply'[u] = Phantom => \E dir \in Kinds : <<u[1], dir>> \in torn
      BY <1>1 DEF RepliesPast
  <2>1. CASE u = t
      BY <2>1, <1>3, <1>4, <1>6, <1>7
  <2>2. CASE u # t
      BY <2>2, <1>7 DEF RepliesInv, RepliesPast
  <2> QED BY <2>1, <2>2
<1>10. ReplyAnswersCall'
  <2> SUFFICES ASSUME NEW u \in Calls, reply'[u] \notin {0, u[2]}
               PROVE  \/ reply'[u] = Phantom /\ \E dir \in Kinds : <<u[1], dir>> \in torn
                      \/ /\ sent[u[1]][reply'[u]] = sent[u[1]][u[2]]
                         /\ IF reply'[u] < u[2] THEN u \in pipelined
                                                ELSE <<u[1], reply'[u]>> \in missed
      BY <1>1 DEF ReplyAnswersCall
  <2>1. CASE u = t
      BY <2>1, <1>1, <1>3, <1>6, <1>7, <1>8
  <2>2. CASE u # t
      BY <2>2, <1>7 DEF RepliesInv, ReplyAnswersCall
  <2> QED BY <2>1, <2>2
<1>11. PipelinedBehind' /\ MissedBehind' /\ ReplyHeld' /\ NoReplySkipped'
    BY <1>1 DEF RepliesInv, PipelinedBehind, MissedBehind, ReplyHeld, NoReplySkipped, Unanswered,
                Opening
<1> QED BY <1>9, <1>10, <1>11 DEF RepliesInv

\* receivedRequest opens the newest call.
LEMMA InsertKeepsReplies ==
    ASSUME QueueInv, RepliesInv, receivedRequestInsert
    PROVE  RepliesInv'
<1>1. /\ pc = "insert" /\ pc' = "timer" /\ transMap' = [transMap EXCEPT ![msg[1]] = msg]
      /\ UNCHANGED <<reply, sent, answered, skipInput, skipped, pipelined, missed, phantoms, torn>>
    BY DEF receivedRequestInsert, netVars, pastVars
<1>2. msg \in Calls /\ msg[1] \in Keys /\ msg[2] = Len(sent[msg[1]]) /\ Len(sent[msg[1]]) \in Nat
    BY <1>1, CallIsPair, Lengths DEF QueueInv, ThriftTypes, NewestOpen, Opening
<1>3. MissedBehind'
  <2> SUFFICES ASSUME NEW k \in Keys, transMap'[k] # NoTrans,
                      NEW m \in transMap'[k][2] + 1 .. Len(sent[k])
               PROVE  <<k, m>> \in missed
      BY <1>1 DEF MissedBehind
  <2>1. k # msg[1]
      BY <1>1, <1>2 DEF QueueInv, ThriftTypes
  <2>2. transMap'[k] = transMap[k]
      BY <2>1, <1>1, <1>2 DEF QueueInv, ThriftTypes
  <2>3. msg # <<k, m>>
      BY <2>1
  <2> QED BY <2>2, <2>3 DEF RepliesInv, MissedBehind
<1>4. PipelinedBehind' /\ ReplyHeld' /\ RepliesPast' /\ NoReplySkipped' /\ ReplyAnswersCall'
    BY <1>1 DEF RepliesInv, PipelinedBehind, ReplyHeld, RepliesPast, NoReplySkipped,
                ReplyAnswersCall, Unanswered
<1> QED BY <1>3, <1>4 DEF RepliesInv

\* The other steps neither parse nor store a reply, and close transactions only.
LEMMA OthersKeepReplies ==
    ASSUME RepliesInv,
           UNCHANGED <<reply, sent, answered, skipInput, pastVars>>,
           \A k \in Keys : transMap'[k] \in {transMap[k], NoTrans},
           pc \in Opening => pc' \in Opening /\ msg' = msg,
           pc' = "reply" => pc = "reply" /\ msg' = msg
    PROVE  RepliesInv'
<1>0. UNCHANGED <<skipped, pipelined, missed, phantoms, torn>>
    BY DEF pastVars
<1>1. PipelinedBehind' /\ NoReplySkipped'
    BY <1>0 DEF RepliesInv, PipelinedBehind, NoReplySkipped, Unanswered
<1>2. ReplyHeld' /\ RepliesPast' /\ ReplyAnswersCall'
    BY <1>0 DEF RepliesInv, ReplyHeld, RepliesPast, ReplyAnswersCall
<1>3. MissedBehind'
    BY <1>0 DEF RepliesInv, MissedBehind
<1> QED BY <1>1, <1>2, <1>3 DEF RepliesInv

LEMMA RepliesStep == QueueInv /\ RepliesInv /\ [Next]_vars => RepliesInv'
<1> SUFFICES ASSUME QueueInv, RepliesInv, [Next]_vars PROVE RepliesInv'
    OBVIOUS
<1>0. transMap \in [Keys -> Calls \cup {NoTrans}]
    BY DEF QueueInv, ThriftTypes
<1>1. ASSUME NEW k \in Keys, NEW dir \in Kinds, ParseFin(k, dir)
      PROVE  RepliesInv'
    BY <1>1, OthersKeepReplies DEF ParseFin, Opening
<1>2. CASE HandlerStep
  <2>1. CASE receivedReplyFound
      BY <2>1, FoundKeepsReplies
  <2>2. CASE receivedRequestInsert
      BY <2>2, InsertKeepsReplies
  <2>3. CASE receivedRequestLookup \/ receivedRequestOneway
      BY <2>3, OthersKeepReplies
      DEF receivedRequestLookup, receivedRequestOneway, Opening, netVars
  <2>4. CASE \/ receivedRequestTimer \/ receivedReplyIgnore \/ receivedReplyQueue
             \/ StopTimer \/ ReceivedFinLookup \/ ReceivedFinOneway
      BY <2>4, OthersKeepReplies
      DEF receivedRequestTimer, receivedReplyIgnore, receivedReplyQueue, StopTimer,
          ReceivedFinLookup, ReceivedFinOneway, Return, Opening, netVars
  <2>5. CASE receivedReplyRemove \/ ReceivedFinDelete
      BY <2>5, <1>0, OthersKeepReplies
      DEF receivedReplyRemove, ReceivedFinDelete, Opening, netVars
  <2> QED BY <1>2, <2>1, <2>2, <2>3, <2>4, <2>5 DEF HandlerStep
<1>3. ASSUME NEW t \in Calls, TimerStep(t) PROVE RepliesInv'
    BY <1>0, <1>3, OthersKeepReplies DEF TimerStep, TimerFires, expireTransaction, netVars
<1>4. CASE PublishStep \/ PublisherReceive \/ UNCHANGED vars
    BY <1>4, OthersKeepReplies
    DEF PublishStep, publishTransactionsTake, publishTransactionsSend, PublisherReceive, vars,
        netVars
<1> QED BY <1>1, <1>2, <1>3, <1>4, RequestKeepsReplies, ReplyKeepsReplies, PhantomKeepsReplies
        DEF Next

\* A reply is stored in the call it answers or in one of the same method, a later one
\* among pipelined calls and an earlier one after a lost request: receivedReply
\* compares no sequence ids.
THEOREM ThriftReplyAnswersCall == Spec => []ReplyAnswersCall
<1>1. RepliesInv => ReplyAnswersCall
    BY DEF RepliesInv
<1> QED BY <1>1, QueueInit, QueueStep, RepliesInit, RepliesStep, PTL DEF Spec

\* Suspending the reply direction of a stream costs no reply but those of pipelined
\* calls, of lost requests and of torn directions, because Parse lifts it with every
\* request that it reads.
THEOREM ThriftNoReplySkipped == Spec => []NoReplySkipped
<1>1. RepliesInv => NoReplySkipped
    BY DEF RepliesInv
<1> QED BY <1>1, QueueInit, QueueStep, RepliesInit, RepliesStep, PTL DEF Spec
===============================================================================
