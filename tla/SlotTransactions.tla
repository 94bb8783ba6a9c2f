---------------------------- MODULE SlotTransactions -----------------------------
(***************************************************************************)
(* The request/response correlator that the redis, mysql and http plugins  *)
(* share in shape: transactionsMap holds at most one open transaction per  *)
(* TCP stream, a request opens or overwrites it, the next response closes  *)
(* and publishes it, and a timer removes it after TransactionTimeout.      *)
(* The lines named for this module are those of protos/redis/redis.go; the *)
(* modules of the single plugins name their own copies.                    *)
(*                                                                         *)
(* The sniffer goroutine runs the handlers (pc, msg, cur), the timers run  *)
(* expireTransaction in goroutines of their own, and the publisher drains  *)
(* the results channel.  There is no lock.  A timer may go off at any time *)
(* after it was started, as any time may pass between two packets.         *)
(***************************************************************************)
EXTENDS Integers

CONSTANTS
    Keys,           \* hashable TCP tuples: one per TCP stream
    QueueCap,       \* capacity of the results channel
    MaxPosition,    \* bound: positions in each direction of a stream
    MaxTrans        \* bound: transactions opened in a behaviour

ASSUME SlotAssumption ==
    /\ QueueCap \in Nat \ {0}
    /\ MaxPosition \in Nat \ {0}
    /\ Keys # {}
    /\ MaxTrans \in Nat \ {0}

NoTrans == 0
TransIds == 1 .. MaxTrans

Dirs == {"client", "server"}        \* the side that sends
Kinds == {"request", "response"}    \* what the parser takes a message for

\* A message is known by the stream, the direction and the position where it
\* ends.
Messages == [key : Keys, dir : Dirs, kind : Kinds, n : 1 .. MaxPosition]
AnyMessage == CHOOSE m \in Messages : TRUE

VARIABLES
    transactionsMap,    \* key -> transaction, or NoTrans
    lastTrans,          \* transactions allocated so far
    key,                \* trans.tuple
    request,            \* the request the fields of trans were filled from
    timer,              \* transactions whose timer is running
    expiring,           \* goroutines about to run expireTransaction(trans)
    queued,             \* events in the results channel
    pc, msg, cur,       \* the handler the sniffer goroutine is in
    crashed,            \* the runtime killed the process
    \* History.
    last,               \* where the last message of each direction ended
    newest,             \* the newest request handled on each key
    published           \* events sent to the results channel

slotVars == <<transactionsMap, lastTrans, key, request, timer, expiring, queued,
              pc, msg, cur, crashed, last, newest, published>>

-------------------------------------------------------------------------------
(* The handlers.                                                           *)

\* handleRedis passes a parsed message to the handler of its kind.
Handle(m) ==
    /\ pc = "idle"
    /\ m.kind = "request" => lastTrans < MaxTrans
    /\ pc' = m.kind
    /\ msg' = m
    /\ last' = [last EXCEPT ![m.key][m.dir] = m.n]
    /\ newest' = IF m.kind = "request" THEN [newest EXCEPT ![m.key] = m] ELSE newest
    /\ UNCHANGED <<transactionsMap, lastTrans, key, request, timer, expiring,
                   queued, cur, crashed, published>>

\* Mutant: the fields of the old request are kept.
RequestReuseKeepsOld ==
    /\ pc = "request"
    /\ transactionsMap[msg.key] # NoTrans
    /\ cur' = transactionsMap[msg.key]
    /\ pc' = "timer"
    /\ UNCHANGED <<transactionsMap, lastTrans, key, request, timer, expiring, queued,
                   msg, crashed, last, newest, published>>

\* receivedRedisRequest: an open transaction is taken over, its request lost.
RequestReuse ==
    /\ pc = "request"
    /\ transactionsMap[msg.key] # NoTrans
    /\ cur' = transactionsMap[msg.key]
    /\ request' = [request EXCEPT ![transactionsMap[msg.key]] = msg]
    /\ pc' = "timer"
    /\ UNCHANGED <<transactionsMap, lastTrans, key, timer, expiring, queued, msg,
                   crashed, last, newest, published>>

\* receivedRedisRequest: no open transaction.
RequestOpen ==
    /\ pc = "request"
    /\ transactionsMap[msg.key] = NoTrans
    /\ lastTrans' = lastTrans + 1
    /\ cur' = lastTrans + 1
    /\ key' = [key EXCEPT ![lastTrans + 1] = msg.key]
    /\ request' = [request EXCEPT ![lastTrans + 1] = msg]
    /\ transactionsMap' = [transactionsMap EXCEPT ![msg.key] = lastTrans + 1]
    /\ pc' = "timer"
    /\ UNCHANGED <<timer, expiring, queued, msg, crashed, last, newest,
                   published>>

\* Mutant: the timer of a transaction that is taken over is stopped only.
RequestTimerStopOnly ==
    /\ pc = "timer"
    /\ timer' = IF cur \in timer THEN timer \ {cur} ELSE timer \cup {cur}
    /\ pc' = "idle"
    /\ UNCHANGED <<transactionsMap, lastTrans, key, request, expiring, queued, msg,
                   cur, crashed, last, newest, published>>

\* receivedRedisRequest: the timer is stopped and started afresh.
RequestTimer ==
    /\ pc = "timer"
    /\ timer' = timer \cup {cur}
    /\ pc' = "idle"
    /\ UNCHANGED <<transactionsMap, lastTrans, key, request, expiring, queued, msg,
                   cur, crashed, last, newest, published>>

\* receivedRedisResponse: "Response from unknown transaction. Ignoring."
ResponseUnknown ==
    /\ pc = "response"
    /\ transactionsMap[msg.key] = NoTrans
    /\ pc' = "idle"
    /\ UNCHANGED <<transactionsMap, lastTrans, key, request, timer, expiring,
                   queued, msg, cur, crashed, last, newest, published>>

ResponseFound ==
    /\ pc = "response"
    /\ transactionsMap[msg.key] # NoTrans
    /\ cur' = transactionsMap[msg.key]
    /\ pc' = "publish"
    /\ UNCHANGED <<transactionsMap, lastTrans, key, request, timer, expiring,
                   queued, msg, crashed, last, newest, published>>

\* publishTransaction: the send blocks while the channel is full.
PublishTransaction ==
    /\ pc = "publish"
    /\ queued < QueueCap
    /\ queued' = queued + 1
    /\ published' = published \cup
         {[request |-> request[cur], response |-> msg, newest |-> newest[msg.key]]}
    /\ pc' = "remove"
    /\ UNCHANGED <<transactionsMap, lastTrans, key, request, timer, expiring, msg,
                   cur, crashed, last, newest>>

\* Reading the response fails (mysql): Parse recovers from the panic and the
\* transaction stays open.
ResponsePanic ==
    /\ pc = "publish"
    /\ pc' = "idle"
    /\ UNCHANGED <<transactionsMap, lastTrans, key, request, timer, expiring,
                   queued, msg, cur, crashed, last, newest, published>>

\* Mutant: the transaction stays in the map.
ResponseRemoveForgotten ==
    /\ pc = "remove"
    /\ pc' = "stop"
    /\ UNCHANGED <<transactionsMap, lastTrans, key, request, timer, expiring, queued,
                   msg, cur, crashed, last, newest, published>>

\* receivedRedisResponse: "remove from map".
ResponseRemove ==
    /\ pc = "remove"
    /\ transactionsMap' = [transactionsMap EXCEPT ![key[cur]] = NoTrans]
    /\ pc' = "stop"
    /\ UNCHANGED <<lastTrans, key, request, timer, expiring, queued, msg, cur,
                   crashed, last, newest, published>>

ResponseStop ==
    /\ pc = "stop"
    /\ timer' = timer \ {cur}
    /\ pc' = "idle"
    /\ UNCHANGED <<transactionsMap, lastTrans, key, request, expiring, queued, msg,
                   cur, crashed, last, newest, published>>

-------------------------------------------------------------------------------
(* Timers, the publisher and the Go runtime.                               *)

TimerFires(t) ==
    /\ t \in timer
    /\ timer' = timer \ {t}
    /\ expiring' = [expiring EXCEPT ![t] = @ + 1]
    /\ UNCHANGED <<transactionsMap, lastTrans, key, request, queued, pc, msg, cur,
                   crashed, last, newest, published>>

expireTransaction(t) ==
    /\ expiring[t] > 0
    /\ expiring' = [expiring EXCEPT ![t] = @ - 1]
    /\ transactionsMap' = [transactionsMap EXCEPT ![key[t]] = NoTrans]
    /\ UNCHANGED <<lastTrans, key, request, timer, queued, pc, msg, cur, crashed,
                   last, newest, published>>

\* The publisher goroutine of libbeat takes an event off the channel.
PublisherReceive ==
    /\ queued > 0
    /\ queued' = queued - 1
    /\ UNCHANGED <<transactionsMap, lastTrans, key, request, timer, expiring, pc,
                   msg, cur, crashed, last, newest, published>>

\* Two goroutines are about to access transactionsMap.
ConcurrentAccess ==
    \/ /\ pc \in {"request", "response", "remove"}
       /\ \E t \in TransIds : expiring[t] > 0
    \/ \E t \in TransIds : expiring[t] > 1
    \/ \E t, u \in TransIds : t # u /\ expiring[t] > 0 /\ expiring[u] > 0

RuntimeAbort ==
    /\ ConcurrentAccess
    /\ crashed' = TRUE
    /\ UNCHANGED <<transactionsMap, lastTrans, key, request, timer, expiring,
                   queued, pc, msg, cur, last, newest, published>>

-------------------------------------------------------------------------------
SlotInit ==
    /\ transactionsMap = [k \in Keys |-> NoTrans]
    /\ lastTrans = 0
    /\ key = [t \in TransIds |-> CHOOSE k \in Keys : TRUE]
    /\ request = [t \in TransIds |-> AnyMessage]
    /\ timer = {}
    /\ expiring = [t \in TransIds |-> 0]
    /\ queued = 0
    /\ pc = "idle"
    /\ msg = AnyMessage
    /\ cur = 1
    /\ crashed = FALSE
    /\ last = [k \in Keys |-> [d \in Dirs |-> 0]]
    /\ newest = [k \in Keys |-> AnyMessage]
    /\ published = {}

\* Anything later in a direction of a stream: the parser may skip bytes and may
\* take a message for the wrong kind, but it never goes back.
Arrive(m) ==
    /\ m.n > last[m.key][m.dir]
    /\ Handle(m)

HandlerStep ==
    \/ RequestReuse \/ RequestOpen \/ RequestTimer
    \/ ResponseUnknown \/ ResponseFound \/ PublishTransaction \/ ResponsePanic
    \/ ResponseRemove \/ ResponseStop

TimerStep(t) == TimerFires(t) \/ expireTransaction(t)

SlotNext ==
    /\ ~crashed
    /\ \/ \E m \in Messages : Arrive(m)
       \/ HandlerStep
       \/ \E t \in TransIds : TimerStep(t)
       \/ PublisherReceive
       \/ RuntimeAbort

SlotSpec == SlotInit /\ [][SlotNext]_slotVars

\* Runnable goroutines run, timers go off; the network need not send anything.
SlotFairness ==
    /\ WF_slotVars(~crashed /\ HandlerStep)
    /\ \A t \in TransIds : WF_slotVars(~crashed /\ TimerStep(t))
    /\ WF_slotVars(~crashed /\ PublisherReceive)

-------------------------------------------------------------------------------
(* Properties.                                                             *)

MapType ==
    /\ transactionsMap \in [Keys -> TransIds \cup {NoTrans}]
    /\ lastTrans \in 0 .. MaxTrans
    /\ key \in [TransIds -> Keys]
    /\ request \in [TransIds -> Messages]
ExpiryType == timer \subseteq TransIds /\ expiring \in [TransIds -> Nat]
HandlerType ==
    /\ pc \in {"idle", "request", "timer", "response", "publish", "remove", "stop"}
    /\ msg \in Messages
    /\ cur \in TransIds
    /\ queued \in 0 .. QueueCap
    /\ crashed \in BOOLEAN
EventType ==
    /\ last \in [Keys -> [Dirs -> 0 .. MaxPosition]]
    /\ newest \in [Keys -> Messages]
    /\ published \subseteq [request : Messages, response : Messages, newest : Messages]

\* Types of the variables; the results channel never overflows.
SlotTypeOK == MapType /\ ExpiryType /\ HandlerType /\ EventType

\* No transaction is leaked: an open transaction has a running timer or an
\* expireTransaction on its way, or its request handler is about to start the
\* timer.
NoLeakedTransaction ==
    \A k \in Keys :
        LET t == transactionsMap[k] IN
        t # NoTrans => \/ t \in timer
                       \/ expiring[t] > 0
                       \/ pc = "timer" /\ cur = t

\* A request and a response are each published at most once, although requests
\* overwrite one another in the slot, timers remove it behind the handlers'
\* back and failed responses leave it open.
PublishedOnce ==
    pc = "publish" =>
        \A e \in published : e.request # request[cur] /\ e.response # msg

\* The published transaction combines a response with the newest request that
\* was handled on the same stream before it, never with an overwritten one.
PairsWithNewestRequest ==
    \A e \in published : e.request = e.newest /\ e.request.key = e.response.key

\* Every open transaction ends: once the traffic stops, transactionsMap
\* becomes and stays empty.
AllTransactionsEnd == <>[](crashed \/ \A k \in Keys : transactionsMap[k] = NoTrans)
===============================================================================
