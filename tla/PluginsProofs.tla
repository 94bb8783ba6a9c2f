------------------------------ MODULE PluginsProofs ------------------------------
(* Theorems about the one-slot correlator, for every set of streams, any     *)
(* number of messages and every capacity of the results channel; then about  *)
(* the redis, mysql and http plugins on top of their buffers, which          *)
(* implement it.                                                             *)
EXTENDS Plugins, TLAPS

USE DEF NoTrans, TransIds, Dirs, Kinds

\* Transactions that are filed or worked on are allocated, are filed under
\* their own key, and carry the newest request of that key.
Structure ==
    /\ \A t \in TransIds : t > lastTrans => t \notin timer /\ expiring[t] = 0
    /\ \A k \in Keys : transactionsMap[k] # NoTrans =>
          transactionsMap[k] <= lastTrans /\ key[transactionsMap[k]] = k
    /\ pc \in {"timer", "publish", "remove", "stop"} =>
          cur <= lastTrans /\ key[cur] = msg.key
    /\ pc = "request" => lastTrans < MaxTrans
    /\ pc = "stop" => transactionsMap[msg.key] = NoTrans

Newest ==
    /\ pc = "request" => msg = newest[msg.key]
    /\ pc = "publish" => request[cur] = newest[msg.key] /\ newest[msg.key].key = msg.key
    /\ \A k \in Keys : transactionsMap[k] # NoTrans =>
          /\ newest[k].key = k
          /\ request[transactionsMap[k]] = newest[k] \/ (pc = "request" /\ msg.key = k)

\* The parser has passed m.
Handled(m) == m.n <= last[m.key][m.dir]

\* The newest request of k has not been published.
Fresh(k) == \A e \in published : e.request # newest[k]

Events ==
    /\ \A e \in published : /\ Handled(e.request) /\ Handled(e.response)
                             /\ e.request = e.newest /\ e.request.key = e.response.key
    /\ \A k \in Keys : transactionsMap[k] # NoTrans =>
          Fresh(k) \/ (pc = "remove" /\ msg.key = k)
    /\ pc \in {"request", "publish"} => Fresh(msg.key)
    /\ pc \in {"request", "response", "publish"} => Handled(msg)
    /\ pc = "publish" => Handled(newest[msg.key])
    /\ \A k \in Keys : transactionsMap[k] # NoTrans => Handled(newest[k])
    /\ pc \in {"response", "publish"} => \A e \in published : e.response # msg

SlotInv == SlotTypeOK /\ Structure /\ NoLeakedTransaction /\ Newest /\ Events

-------------------------------------------------------------------------------
\* The invariant holds when the plugin starts (redis Init).
LEMMA SlotInitInv == SlotInit => SlotInv
  <1> SUFFICES ASSUME SlotInit PROVE SlotInv
    OBVIOUS
  <1> USE SlotAssumption
  <1>1. (CHOOSE k \in Keys : TRUE) \in Keys
    OBVIOUS
  <1>2. AnyMessage \in Messages
    <2>1. PICK k \in Keys : TRUE
      OBVIOUS
    <2>2. [key |-> k, dir |-> "client", kind |-> "request", n |-> 1] \in Messages
      BY DEF Messages
    <2> QED BY <2>2 DEF AnyMessage
  <1>3. MapType
    <2>1. key \in [TransIds -> Keys]
      BY <1>1 DEF SlotInit
    <2>2. /\ transactionsMap \in [Keys -> TransIds \cup {NoTrans}]
          /\ lastTrans \in 0 .. MaxTrans /\ request \in [TransIds -> Messages]
      BY <1>2 DEF SlotInit
    <2> QED BY <2>1, <2>2 DEF MapType
  <1>4. ExpiryType
    BY DEF SlotInit, ExpiryType
  <1>5. HandlerType
    <2>1. pc = "idle" /\ msg = AnyMessage /\ cur \in TransIds /\ queued \in 0 .. QueueCap
      BY DEF SlotInit
    <2>2. crashed \in BOOLEAN
      BY DEF SlotInit
    <2> QED BY <1>2, <2>1, <2>2 DEF HandlerType
  <1>6. EventType
    BY <1>2 DEF SlotInit, EventType
  <1>7. Structure /\ NoLeakedTransaction
    BY DEF SlotInit, Structure, NoLeakedTransaction
  <1>8. Newest /\ Events
    BY DEF SlotInit, Newest, Events, Fresh
  <1> QED BY <1>3, <1>4, <1>5, <1>6, <1>7, <1>8 DEF SlotInv, SlotTypeOK

\* The message in the handler has a key, a direction, a kind and a number.
LEMMA MessageType ==
    ASSUME NEW m \in Messages
    PROVE  /\ m.key \in Keys /\ m.dir \in Dirs /\ m.kind \in {"request", "response"}
           /\ m.n \in 1 .. MaxPosition
  BY DEF Messages

\* Every step of the handlers and timers preserves the types; the blocking send
\* of publishTransaction keeps the channel within its capacity.
LEMMA SlotNextType == SlotInv /\ [SlotNext]_slotVars => SlotTypeOK'
  <1> SUFFICES ASSUME SlotInv, [SlotNext]_slotVars PROVE SlotTypeOK'
    OBVIOUS
  <1> USE SlotAssumption
  <1>1. MapType /\ ExpiryType /\ HandlerType /\ EventType /\ Structure
    BY DEF SlotInv, SlotTypeOK
  <1>2. msg \in Messages /\ msg.key \in Keys /\ msg.n \in 1 .. MaxPosition
    BY <1>1, MessageType DEF HandlerType
  <1>3. ASSUME NEW m \in Messages, Arrive(m) PROVE SlotTypeOK'
    <2>1. /\ m.key \in Keys /\ m.dir \in Dirs /\ m.kind \in {"request", "response"}
          /\ m.n \in 1 .. MaxPosition
      BY MessageType
    <2>2. HandlerType'
      BY <1>1, <1>3, <2>1 DEF HandlerType, Arrive, Handle
    <2>3. EventType'
      BY <1>1, <1>3, <2>1 DEF EventType, Arrive, Handle
    <2>4. MapType' /\ ExpiryType'
      BY <1>1, <1>3 DEF MapType, ExpiryType, Arrive, Handle
    <2> QED BY <2>2, <2>3, <2>4 DEF SlotTypeOK
  <1>4. CASE RequestReuse
    <2>1. MapType'
      BY <1>1, <1>2, <1>4 DEF MapType, RequestReuse
    <2>2. HandlerType'
      BY <1>1, <1>2, <1>4 DEF HandlerType, MapType, RequestReuse
    <2>3. ExpiryType' /\ EventType'
      BY <1>1, <1>2, <1>4 DEF ExpiryType, EventType, RequestReuse
    <2> QED BY <2>1, <2>2, <2>3 DEF SlotTypeOK
  <1>5. CASE RequestOpen
    <2>1. lastTrans + 1 \in TransIds
      BY <1>1, <1>5 DEF Structure, MapType, RequestOpen
    <2>2. MapType'
      BY <1>1, <1>2, <1>5, <2>1 DEF MapType, RequestOpen
    <2>3. HandlerType'
      BY <1>1, <1>5, <2>1 DEF HandlerType, RequestOpen
    <2>4. ExpiryType' /\ EventType'
      BY <1>1, <1>5 DEF ExpiryType, EventType, RequestOpen
    <2> QED BY <2>2, <2>3, <2>4 DEF SlotTypeOK
  <1>6. CASE RequestTimer
    <2>1. ExpiryType'
      BY <1>1, <1>2, <1>6 DEF ExpiryType, HandlerType, RequestTimer
    <2>2. HandlerType'
      BY <1>1, <1>2, <1>6 DEF HandlerType, RequestTimer
    <2>3. MapType' /\ EventType'
      BY <1>1, <1>2, <1>6 DEF MapType, EventType, RequestTimer
    <2> QED BY <2>1, <2>2, <2>3 DEF SlotTypeOK
  <1>7. CASE ResponseUnknown
    <2>1. HandlerType'
      BY <1>1, <1>2, <1>7 DEF HandlerType, ResponseUnknown
    <2>2. MapType' /\ ExpiryType' /\ EventType'
      BY <1>1, <1>2, <1>7 DEF MapType, ExpiryType, EventType, ResponseUnknown
    <2> QED BY <2>1, <2>2 DEF SlotTypeOK
  <1>8. CASE ResponseFound
    <2>1. HandlerType'
      BY <1>1, <1>2, <1>8 DEF HandlerType, MapType, ResponseFound
    <2>2. MapType' /\ ExpiryType' /\ EventType'
      BY <1>1, <1>2, <1>8 DEF MapType, ExpiryType, EventType, ResponseFound
    <2> QED BY <2>1, <2>2 DEF SlotTypeOK
  <1>9. CASE PublishTransaction
    <2>1. HandlerType'
      BY <1>1, <1>9 DEF HandlerType, PublishTransaction
    <2>2. request[cur] \in Messages /\ newest[msg.key] \in Messages
      BY <1>1, <1>2 DEF MapType, HandlerType, EventType
    <2>3. EventType'
      BY <1>1, <1>2, <1>9, <2>2 DEF EventType, PublishTransaction
    <2>4. MapType' /\ ExpiryType'
      BY <1>1, <1>9 DEF MapType, ExpiryType, PublishTransaction
    <2> QED BY <2>1, <2>3, <2>4 DEF SlotTypeOK
  <1>10. CASE ResponsePanic
    <2>1. HandlerType'
      BY <1>1, <1>2, <1>10 DEF HandlerType, ResponsePanic
    <2>2. MapType' /\ ExpiryType' /\ EventType'
      BY <1>1, <1>2, <1>10 DEF MapType, ExpiryType, EventType, ResponsePanic
    <2> QED BY <2>1, <2>2 DEF SlotTypeOK
  <1>11. CASE ResponseRemove
    <2>1. MapType'
      BY <1>1, <1>2, <1>11 DEF MapType, ResponseRemove
    <2>2. HandlerType'
      BY <1>1, <1>2, <1>11 DEF HandlerType, ResponseRemove
    <2>3. ExpiryType' /\ EventType'
      BY <1>1, <1>2, <1>11 DEF ExpiryType, EventType, ResponseRemove
    <2> QED BY <2>1, <2>2, <2>3 DEF SlotTypeOK
  <1>12. CASE ResponseStop
    <2>1. ExpiryType'
      BY <1>1, <1>2, <1>12 DEF ExpiryType, ResponseStop
    <2>2. HandlerType'
      BY <1>1, <1>2, <1>12 DEF HandlerType, ResponseStop
    <2>3. MapType' /\ EventType'
      BY <1>1, <1>2, <1>12 DEF MapType, EventType, ResponseStop
    <2> QED BY <2>1, <2>2, <2>3 DEF SlotTypeOK
  <1>13. ASSUME NEW t \in TransIds, TimerFires(t) PROVE SlotTypeOK'
    <2>1. ExpiryType'
      BY <1>1, <1>2, <1>13 DEF ExpiryType, TimerFires
    <2>2. MapType' /\ HandlerType' /\ EventType'
      BY <1>1, <1>2, <1>13 DEF MapType, HandlerType, EventType, TimerFires
    <2> QED BY <2>1, <2>2 DEF SlotTypeOK
  <1>14. ASSUME NEW t \in TransIds, expireTransaction(t) PROVE SlotTypeOK'
    <2>1. MapType'
      BY <1>1, <1>2, <1>14 DEF MapType, expireTransaction
    <2>2. ExpiryType'
      BY <1>1, <1>2, <1>14 DEF ExpiryType, expireTransaction
    <2>3. HandlerType' /\ EventType'
      BY <1>1, <1>2, <1>14 DEF HandlerType, EventType, expireTransaction
    <2> QED BY <2>1, <2>2, <2>3 DEF SlotTypeOK
  <1>15. CASE PublisherReceive
    <2>1. HandlerType'
      BY <1>1, <1>2, <1>15 DEF HandlerType, PublisherReceive
    <2>2. MapType' /\ ExpiryType' /\ EventType'
      BY <1>1, <1>2, <1>15 DEF MapType, ExpiryType, EventType, PublisherReceive
    <2> QED BY <2>1, <2>2 DEF SlotTypeOK
  <1>16. CASE RuntimeAbort
    <2>1. HandlerType'
      BY <1>1, <1>2, <1>16 DEF HandlerType, RuntimeAbort
    <2>2. MapType' /\ ExpiryType' /\ EventType'
      BY <1>1, <1>2, <1>16 DEF MapType, ExpiryType, EventType, RuntimeAbort
    <2> QED BY <2>1, <2>2 DEF SlotTypeOK
  <1>17. CASE UNCHANGED slotVars
    BY <1>1, <1>17 DEF MapType, ExpiryType, HandlerType, EventType, SlotTypeOK, slotVars
  <1> QED BY <1>3, <1>4, <1>5, <1>6, <1>7, <1>8, <1>9, <1>10, <1>11, <1>12, <1>13,
             <1>14, <1>15, <1>16, <1>17
          DEF SlotNext, HandlerStep, TimerStep

\* Each action keeps the rest of the inductive invariant.
LEMMA SlotNextInv == SlotInv /\ [SlotNext]_slotVars => SlotInv'
  <1> SUFFICES ASSUME SlotInv, [SlotNext]_slotVars PROVE SlotInv'
    OBVIOUS
  <1> USE SlotAssumption
  <1> DEFINE Rest == Structure /\ NoLeakedTransaction /\ Newest /\ Events
  <1> SUFFICES Rest'
    BY SlotNextType DEF SlotInv
  <1>1. Structure /\ NoLeakedTransaction /\ Newest /\ Events
    BY DEF SlotInv
  <1>2. /\ msg \in Messages /\ msg.key \in Keys /\ msg.n \in 1 .. MaxPosition
        /\ cur \in TransIds /\ lastTrans \in 0 .. MaxTrans
    BY MessageType DEF SlotInv, SlotTypeOK, HandlerType, MapType
  <1>3. /\ transactionsMap \in [Keys -> TransIds \cup {NoTrans}]
        /\ key \in [TransIds -> Keys] /\ request \in [TransIds -> Messages]
        /\ expiring \in [TransIds -> Nat]
    BY DEF SlotInv, SlotTypeOK, MapType, ExpiryType
  <1>4. EventType
    BY DEF SlotInv, SlotTypeOK
  <1>5. ASSUME NEW m \in Messages, Arrive(m) PROVE Rest'
    <2>1. /\ m.key \in Keys /\ m.dir \in Dirs /\ m.kind \in {"request", "response"}
          /\ m.n \in 1 .. MaxPosition
      BY MessageType
    <2>2. /\ pc = "idle" /\ pc' = m.kind /\ msg' = m
          /\ m.kind = "request" => lastTrans < MaxTrans
          /\ m.n > last[m.key][m.dir]
          /\ last' = [last EXCEPT ![m.key][m.dir] = m.n]
          /\ newest' = IF m.kind = "request" THEN [newest EXCEPT ![m.key] = m] ELSE newest
          /\ UNCHANGED <<transactionsMap, lastTrans, key, request, timer, expiring, cur,
                         published>>
      BY <1>5 DEF Arrive, Handle
    <2>3. /\ last \in [Keys -> [Dirs -> 0 .. MaxPosition]]
          /\ newest \in [Keys -> Messages]
          /\ \A e \in published : e.request \in Messages /\ e.response \in Messages
      BY <1>4 DEF EventType
    <2>4. Structure' /\ NoLeakedTransaction'
      BY <1>1, <1>2, <1>3, <2>1, <2>2 DEF Structure, NoLeakedTransaction
    <2>5. /\ \A k \in Keys : k # m.key => newest'[k] = newest[k]
          /\ m.kind = "request" => newest'[m.key] = m
          /\ m.kind # "request" => newest'[m.key] = newest[m.key]
      BY <2>1, <2>2, <2>3
    <2>6. Newest'
      <3>1. ASSUME NEW k \in Keys, transactionsMap[k] # NoTrans
            PROVE  /\ newest'[k].key = k
                   /\ request[transactionsMap[k]] = newest'[k] \/ (m.kind = "request" /\ m.key = k)
        <4>1. newest[k].key = k /\ request[transactionsMap[k]] = newest[k]
          BY <1>1, <2>2, <3>1 DEF Newest
        <4>2. CASE k = m.key /\ m.kind = "request"
          BY <2>5, <4>2
        <4>3. CASE ~(k = m.key /\ m.kind = "request")
          <5>1. newest'[k] = newest[k]
            BY <2>5, <4>3
          <5> QED BY <4>1, <5>1
        <4> QED BY <4>2, <4>3
      <3> QED BY <2>1, <2>2, <2>5, <3>1 DEF Newest
    <2>7. ASSUME NEW q \in Messages, Handled(q) PROVE Handled(q)' /\ q # m
      <3>1. q.key \in Keys /\ q.dir \in Dirs /\ q.n \in Int
        BY MessageType
      <3>2. /\ last[q.key][q.dir] \in Int /\ last[m.key][m.dir] \in Int
            /\ last'[q.key][q.dir] =
                 IF q.key = m.key /\ q.dir = m.dir THEN m.n ELSE last[q.key][q.dir]
        BY <2>1, <2>2, <2>3, <3>1
      <3> QED BY <2>1, <2>2, <2>7, <3>1, <3>2 DEF Handled
    <2>8. Handled(m)'
      BY <2>1, <2>2, <2>3 DEF Handled
    <2>9. \A e \in published : /\ Handled(e.request)' /\ Handled(e.response)'
                               /\ e.request # m /\ e.response # m
      BY <1>1, <2>3, <2>7 DEF Events
    <2>10. ASSUME NEW k \in Keys, transactionsMap[k] # NoTrans
           PROVE  Fresh(k)' /\ Handled(newest[k])'
      <3>1. Fresh(k) /\ Handled(newest[k]) /\ newest[k] \in Messages
        BY <1>1, <2>2, <2>3, <2>10 DEF Events
      <3>2. newest'[k] = newest[k] \/ newest'[k] = m
        BY <2>5
      <3>3. \A e \in published : e.request # newest'[k]
        BY <2>9, <3>1, <3>2 DEF Fresh
      <3>4. Handled(newest[k])'
        <4>1. CASE newest'[k] = newest[k]
          <5>1. newest[k].n <= last'[newest[k].key][newest[k].dir]
            BY <2>7, <3>1 DEF Handled
          <5> QED BY <4>1, <5>1 DEF Handled
        <4>2. CASE newest'[k] = m
          <5>1. m.n <= last'[m.key][m.dir]
            BY <2>8 DEF Handled
          <5> QED BY <4>2, <5>1 DEF Handled
        <4> QED BY <3>2, <4>1, <4>2
      <3> QED BY <2>2, <3>3, <3>4 DEF Fresh
    <2>11. pc' = "request" => Fresh(m.key)'
      BY <2>2, <2>5, <2>9 DEF Fresh
    <2>12. Handled(msg)'
      <3>1. m.n <= last'[m.key][m.dir]
        BY <2>8 DEF Handled
      <3> QED BY <2>2, <3>1 DEF Handled
    <2>13. \A e \in published' : /\ Handled(e.request)' /\ Handled(e.response)'
                                /\ e.request = e.newest /\ e.request.key = e.response.key
                                /\ e.response # msg'
      BY <1>1, <2>2, <2>9 DEF Events
    <2>14. pc' \in {"request", "response"} /\ transactionsMap' = transactionsMap
           /\ (pc' = "request" => Fresh(msg.key)')
      BY <2>1, <2>2, <2>11 DEF Fresh
    <2>15. Events'
      BY <2>10, <2>12, <2>13, <2>14 DEF Events
    <2> QED BY <2>4, <2>6, <2>15
  <1>6. CASE RequestReuse
    <2>1. Structure'
      BY <1>1, <1>2, <1>3, <1>4, <1>6 DEF Structure, RequestReuse
    <2>2. NoLeakedTransaction'
      BY <1>1, <1>2, <1>3, <1>4, <1>6 DEF NoLeakedTransaction, Structure, RequestReuse
    <2>3. Newest'
      <3> DEFINE c == transactionsMap[msg.key]
      <3>1. /\ pc = "request" /\ pc' = "timer" /\ c \in TransIds
            /\ request' = [request EXCEPT ![c] = msg]
            /\ UNCHANGED <<transactionsMap, msg, newest>>
        BY <1>2, <1>3, <1>6 DEF RequestReuse
      <3>2. msg = newest[msg.key] /\ request'[c] = msg
        BY <1>1, <1>3, <3>1 DEF Newest
      <3>3. ASSUME NEW k \in Keys, transactionsMap[k] # NoTrans, k # msg.key
            PROVE  newest[k].key = k /\ request'[transactionsMap[k]] = newest[k]
        <4>1. transactionsMap[k] \in TransIds /\ transactionsMap[k] # c
          BY <1>1, <1>2, <1>3, <3>1, <3>3 DEF Structure
        <4>2. newest[k].key = k /\ request[transactionsMap[k]] = newest[k]
          BY <1>1, <3>3 DEF Newest
        <4> QED BY <1>3, <3>1, <4>1, <4>2
      <3>4. newest[msg.key].key = msg.key
        BY <3>2
      <3>5. \A k \in Keys : transactionsMap[k] # NoTrans =>
               newest[k].key = k /\ request'[transactionsMap[k]] = newest[k]
        BY <3>2, <3>3, <3>4
      <3>6. \A k \in Keys : transactionsMap'[k] # NoTrans =>
               newest'[k].key = k /\ request'[transactionsMap'[k]] = newest'[k]
        BY <3>1, <3>5
      <3> QED BY <3>1, <3>6 DEF Newest
    <2>4. Events'
      BY <1>1, <1>2, <1>3, <1>4, <1>6 DEF Events, Fresh, Handled, EventType, Structure, RequestReuse
    <2> QED BY <2>1, <2>2, <2>3, <2>4
  <1>7. CASE RequestOpen
    <2>1. Structure'
      BY <1>1, <1>2, <1>3, <1>4, <1>7 DEF Structure, RequestOpen
    <2>2. NoLeakedTransaction'
      BY <1>1, <1>2, <1>3, <1>4, <1>7 DEF NoLeakedTransaction, Structure, RequestOpen
    <2>3. Newest'
      <3> DEFINE c == lastTrans + 1
      <3>1. /\ pc = "request" /\ pc' = "timer" /\ c \in TransIds
            /\ request' = [request EXCEPT ![c] = msg]
            /\ transactionsMap' = [transactionsMap EXCEPT ![msg.key] = c]
            /\ UNCHANGED <<msg, newest>>
        BY <1>1, <1>2, <1>3, <1>7 DEF RequestOpen, Structure
      <3>2. msg = newest[msg.key] /\ newest[msg.key].key = msg.key /\ request'[c] = msg
            /\ transactionsMap'[msg.key] = c
        BY <1>1, <1>2, <1>3, <3>1 DEF Newest
      <3>3. ASSUME NEW k \in Keys, transactionsMap'[k] # NoTrans, k # msg.key
            PROVE  newest[k].key = k /\ request'[transactionsMap'[k]] = newest[k]
        <4>1. transactionsMap'[k] = transactionsMap[k] /\ transactionsMap[k] \in TransIds
          BY <1>2, <1>3, <3>1, <3>3
        <4>2. transactionsMap[k] # c
          BY <1>1, <1>2, <4>1 DEF Structure
        <4>3. newest[k].key = k /\ request[transactionsMap[k]] = newest[k]
          BY <1>1, <3>3, <4>1 DEF Newest
        <4> QED BY <1>3, <3>1, <4>1, <4>2, <4>3
      <3> HIDE DEF c
      <3>4. \A k \in Keys : transactionsMap'[k] # NoTrans =>
               newest[k].key = k /\ request'[transactionsMap'[k]] = newest[k]
        BY <3>2, <3>3
      <3>5. \A k \in Keys : transactionsMap'[k] # NoTrans =>
               newest'[k].key = k /\ request'[transactionsMap'[k]] = newest'[k]
        BY <3>1, <3>4
      <3> QED BY <3>1, <3>5 DEF Newest
    <2>4. Events'
      BY <1>1, <1>2, <1>3, <1>4, <1>7 DEF Events, Fresh, Handled, EventType, Structure, Newest, RequestOpen
    <2> QED BY <2>1, <2>2, <2>3, <2>4
  <1>8. CASE RequestTimer
    <2>1. Structure'
      BY <1>1, <1>2, <1>3, <1>4, <1>8 DEF Structure, RequestTimer
    <2>2. NoLeakedTransaction'
      BY <1>1, <1>2, <1>3, <1>4, <1>8 DEF NoLeakedTransaction, RequestTimer
    <2>3. Newest'
      BY <1>1, <1>2, <1>3, <1>4, <1>8 DEF Newest, RequestTimer
    <2>4. Events'
      BY <1>1, <1>2, <1>3, <1>4, <1>8 DEF Events, Fresh, Handled, EventType, RequestTimer
    <2> QED BY <2>1, <2>2, <2>3, <2>4
  <1>9. CASE ResponseUnknown
    <2>1. Structure'
      BY <1>1, <1>2, <1>3, <1>4, <1>9 DEF Structure, ResponseUnknown
    <2>2. NoLeakedTransaction'
      BY <1>1, <1>2, <1>3, <1>4, <1>9 DEF NoLeakedTransaction, ResponseUnknown
    <2>3. Newest'
      BY <1>1, <1>2, <1>3, <1>4, <1>9 DEF Newest, ResponseUnknown
    <2>4. Events'
      BY <1>1, <1>2, <1>3, <1>4, <1>9 DEF Events, Fresh, Handled, EventType, ResponseUnknown
    <2> QED BY <2>1, <2>2, <2>3, <2>4
  <1>10. CASE ResponseFound
    <2>1. Structure'
      BY <1>1, <1>2, <1>3, <1>4, <1>10 DEF Structure, ResponseFound
    <2>2. NoLeakedTransaction'
      BY <1>1, <1>2, <1>3, <1>4, <1>10 DEF NoLeakedTransaction, ResponseFound
    <2>3. Newest'
      BY <1>1, <1>2, <1>3, <1>4, <1>10 DEF Newest, ResponseFound
    <2>4. Events'
      BY <1>1, <1>2, <1>3, <1>4, <1>10 DEF Events, Fresh, Handled, EventType, ResponseFound
    <2> QED BY <2>1, <2>2, <2>3, <2>4
  <1>11. CASE PublishTransaction
    <2>1. Structure'
      BY <1>1, <1>2, <1>3, <1>4, <1>11 DEF Structure, PublishTransaction
    <2>2. NoLeakedTransaction'
      BY <1>1, <1>2, <1>3, <1>4, <1>11 DEF NoLeakedTransaction, PublishTransaction
    <2>3. Newest'
      BY <1>1, <1>2, <1>3, <1>4, <1>11 DEF Newest, PublishTransaction
    <2>4. Events'
      <3> DEFINE new == [request |-> request[cur], response |-> msg,
                         newest |-> newest[msg.key]]
      <3>1. /\ pc = "publish" /\ pc' = "remove"
            /\ published' = published \cup {new}
            /\ UNCHANGED <<transactionsMap, msg, last, newest>>
        BY <1>11 DEF PublishTransaction
      <3>2. /\ new.request = newest[msg.key] /\ new.response = msg
            /\ new.newest = newest[msg.key] /\ newest[msg.key].key = msg.key
        BY <1>1, <3>1 DEF Newest
      <3>3. Handled(msg) /\ Handled(newest[msg.key])
        BY <1>1, <3>1 DEF Events
      <3> HIDE DEF new
      <3>4. \A e \in published' : /\ Handled(e.request)' /\ Handled(e.response)'
                                   /\ e.request = e.newest /\ e.request.key = e.response.key
        BY <1>1, <3>1, <3>2, <3>3 DEF Events, Handled
      <3>5. ASSUME NEW k \in Keys, transactionsMap[k] # NoTrans, k # msg.key, Fresh(k)
            PROVE  Fresh(k)'
        <4>1. newest[k].key = k
          BY <1>1, <3>5 DEF Newest
        <4> QED BY <3>1, <3>2, <3>5, <4>1 DEF Fresh
      <3>6. \A k \in Keys : transactionsMap'[k] # NoTrans =>
               Handled(newest[k])' /\ (k = msg.key \/ Fresh(k)')
        BY <1>1, <3>1, <3>5 DEF Events, Handled
      <3> QED BY <3>1, <3>4, <3>6 DEF Events
    <2> QED BY <2>1, <2>2, <2>3, <2>4
  <1>12. CASE ResponsePanic
    <2>1. Structure'
      BY <1>1, <1>2, <1>3, <1>4, <1>12 DEF Structure, ResponsePanic
    <2>2. NoLeakedTransaction'
      BY <1>1, <1>2, <1>3, <1>4, <1>12 DEF NoLeakedTransaction, ResponsePanic
    <2>3. Newest'
      BY <1>1, <1>2, <1>3, <1>4, <1>12 DEF Newest, ResponsePanic
    <2>4. Events'
      BY <1>1, <1>2, <1>3, <1>4, <1>12 DEF Events, Fresh, Handled, EventType, ResponsePanic
    <2> QED BY <2>1, <2>2, <2>3, <2>4
  <1>13. CASE ResponseRemove
    <2>1. Structure'
      BY <1>1, <1>2, <1>3, <1>4, <1>13 DEF Structure, ResponseRemove
    <2>2. NoLeakedTransaction'
      BY <1>1, <1>2, <1>3, <1>4, <1>13 DEF NoLeakedTransaction, Structure, ResponseRemove
    <2>3. Newest'
      BY <1>1, <1>2, <1>3, <1>4, <1>13 DEF Newest, Structure, ResponseRemove
    <2>4. Events'
      BY <1>1, <1>2, <1>3, <1>4, <1>13 DEF Events, Fresh, Handled, EventType, Structure, ResponseRemove
    <2> QED BY <2>1, <2>2, <2>3, <2>4
  <1>14. CASE ResponseStop
    <2>1. Structure'
      BY <1>1, <1>2, <1>3, <1>4, <1>14 DEF Structure, ResponseStop
    <2>2. NoLeakedTransaction'
      BY <1>1, <1>2, <1>3, <1>4, <1>14 DEF NoLeakedTransaction, Structure, ResponseStop
    <2>3. Newest'
      BY <1>1, <1>2, <1>3, <1>4, <1>14 DEF Newest, Structure, ResponseStop
    <2>4. Events'
      BY <1>1, <1>2, <1>3, <1>4, <1>14 DEF Events, Fresh, Handled, EventType, Structure, ResponseStop
    <2> QED BY <2>1, <2>2, <2>3, <2>4
  <1>15. ASSUME NEW t \in TransIds, TimerFires(t) PROVE Rest'
    <2>1. Structure'
      BY <1>1, <1>2, <1>3, <1>4, <1>15 DEF Structure, TimerFires
    <2>2. NoLeakedTransaction'
      BY <1>1, <1>2, <1>3, <1>4, <1>15 DEF NoLeakedTransaction, TimerFires
    <2>3. Newest'
      BY <1>1, <1>2, <1>3, <1>4, <1>15 DEF Newest, TimerFires
    <2>4. Events'
      BY <1>1, <1>2, <1>3, <1>4, <1>15 DEF Events, Fresh, Handled, EventType, TimerFires
    <2> QED BY <2>1, <2>2, <2>3, <2>4
  <1>16. ASSUME NEW t \in TransIds, expireTransaction(t) PROVE Rest'
    <2>1. Structure'
      BY <1>1, <1>2, <1>3, <1>4, <1>16 DEF Structure, expireTransaction
    <2>2. NoLeakedTransaction'
      BY <1>1, <1>2, <1>3, <1>4, <1>16, SMTT(40) DEF NoLeakedTransaction, Structure, expireTransaction
    <2>3. Newest'
      BY <1>1, <1>2, <1>3, <1>4, <1>16 DEF Newest, Structure, expireTransaction
    <2>4. Events'
      BY <1>1, <1>2, <1>3, <1>4, <1>16 DEF Events, Fresh, Handled, EventType, Structure, expireTransaction
    <2> QED BY <2>1, <2>2, <2>3, <2>4
  <1>17. CASE PublisherReceive
    <2>1. Structure'
      BY <1>1, <1>2, <1>3, <1>4, <1>17 DEF Structure, PublisherReceive
    <2>2. NoLeakedTransaction'
      BY <1>1, <1>2, <1>3, <1>4, <1>17 DEF NoLeakedTransaction, PublisherReceive
    <2>3. Newest'
      BY <1>1, <1>2, <1>3, <1>4, <1>17 DEF Newest, PublisherReceive
    <2>4. Events'
      BY <1>1, <1>2, <1>3, <1>4, <1>17 DEF Events, Fresh, Handled, EventType, PublisherReceive
    <2> QED BY <2>1, <2>2, <2>3, <2>4
  <1>18. CASE RuntimeAbort
    <2>1. Structure'
      BY <1>1, <1>2, <1>3, <1>4, <1>18 DEF Structure, RuntimeAbort
    <2>2. NoLeakedTransaction'
      BY <1>1, <1>2, <1>3, <1>4, <1>18 DEF NoLeakedTransaction, RuntimeAbort
    <2>3. Newest'
      BY <1>1, <1>2, <1>3, <1>4, <1>18 DEF Newest, RuntimeAbort
    <2>4. Events'
      BY <1>1, <1>2, <1>3, <1>4, <1>18 DEF Events, Fresh, Handled, EventType, RuntimeAbort
    <2> QED BY <2>1, <2>2, <2>3, <2>4
  <1>19. CASE UNCHANGED slotVars
    <2>1. Structure'
      BY <1>1, <1>2, <1>3, <1>4, <1>19 DEF Structure, slotVars
    <2>2. NoLeakedTransaction'
      BY <1>1, <1>2, <1>3, <1>4, <1>19 DEF NoLeakedTransaction, slotVars
    <2>3. Newest'
      BY <1>1, <1>2, <1>3, <1>4, <1>19 DEF Newest, slotVars
    <2>4. Events'
      BY <1>1, <1>2, <1>3, <1>4, <1>19 DEF Events, Fresh, Handled, EventType, slotVars
    <2> QED BY <2>1, <2>2, <2>3, <2>4
  <1> HIDE DEF Rest
  <1> QED BY <1>5, <1>6, <1>7, <1>8, <1>9, <1>10, <1>11, <1>12, <1>13, <1>14, <1>15,
             <1>16, <1>17, <1>18, <1>19
          DEF SlotNext, HandlerStep, TimerStep

-------------------------------------------------------------------------------
\* The inductive invariant holds in every reachable state.
THEOREM SlotInvariant == SlotSpec => []SlotInv
  BY SlotInitInv, SlotNextInv, PTL DEF SlotSpec

\* Every variable keeps its type; the results channel never overflows.
THEOREM SlotTypeCorrect == SlotSpec => []SlotTypeOK
  BY SlotInvariant, PTL DEF SlotInv

\* An open transaction always has a timer, or a goroutine, that will end it.
THEOREM TransactionsNotLeaked == SlotSpec => []NoLeakedTransaction
  BY SlotInvariant, PTL DEF SlotInv

\* No request and no response is published twice.
THEOREM NothingPublishedTwice == SlotSpec => []PublishedOnce
  <1>1. SlotInv => PublishedOnce
    BY DEF SlotInv, Newest, Events, Fresh, PublishedOnce
  <1> QED BY SlotInvariant, <1>1, PTL

\* A response is published with the newest request of its stream.
THEOREM NewestRequestPublished == SlotSpec => []PairsWithNewestRequest
  <1>1. SlotInv => PairsWithNewestRequest
    BY DEF SlotInv, Events, PairsWithNewestRequest
  <1> QED BY SlotInvariant, <1>1, PTL

-------------------------------------------------------------------------------
(* The plugins.                                                            *)

USE DEF NoStream

Positions == [Keys -> [Dirs -> Nat]]

\* The buffer holds the end of what was captured, and the messages that were handled
\* lie before it, so that the next one is newer.  After the FIN of a direction nothing
\* more is taken off its buffer.
WireInv ==
    /\ base \in Positions /\ captured \in Positions
    /\ parsing \in {NoStream} \cup (Keys \X Dirs)
    /\ protocol \in {"redis", "mysql", "http"}
    /\ protocol # "http" => closed = {}
    /\ \A k \in Keys, d \in Dirs :
          /\ base[k][d] <= captured[k][d] /\ captured[k][d] <= MaxPosition
          /\ parsing = <<k, d>> => <<k, d>> \notin closed
          /\ <<k, d>> \notin closed => last[k][d] <= base[k][d]

-------------------------------------------------------------------------------
(* The steps of the plugins.                                               *)

\* What the correlator does between two messages.
SlotStep == HandlerStep \/ (\E t \in TransIds : TimerStep(t)) \/ PublisherReceive \/ RuntimeAbort

Shipped(k, d, end, kind) ==
    /\ parsing = <<k, d>> /\ Complete(k, d, end, kind)
    /\ Handle([key |-> k, dir |-> d, kind |-> kind, n |-> end])
    /\ base' = [base EXCEPT ![k][d] = end]
    /\ parsing' \in {parsing, NoStream}
    /\ UNCHANGED captured

Skipped(k, d, end) ==
    /\ parsing = <<k, d>> /\ end \in base[k][d] + 1 .. captured[k][d]
    /\ base' = [base EXCEPT ![k][d] = end]
    /\ UNCHANGED <<slotVars, captured, parsing>>

Lost(k) == LoseStream(k) /\ (UNCHANGED slotVars \/ ResponsePanic)

\* The plugins work on the same state, each with its own Parse.
BufferStep ==
    \/ \E k \in Keys, d \in Dirs, len \in 1 .. MaxSegment :
          <<k, d>> \notin closed /\ AppendPayload(k, d, len)
    \/ \E k \in Keys, d \in Dirs, end \in 1 .. MaxPosition, kind \in Kinds :
          Shipped(k, d, end, kind)
    \/ \E k \in Keys, d \in Dirs, end \in 1 .. MaxPosition : Skipped(k, d, end)
    \/ \E k \in Keys, d \in Dirs : RejectStream(k, d)
    \/ \E k \in Keys, d \in Dirs : WaitForMore(k, d)
    \/ \E k \in Keys : Lost(k)
    \/ SlotStep /\ UNCHANGED bufferVars

RedisKinds ==
    \/ \E k \in Keys, d \in Dirs, len \in 1 .. MaxSegment : AppendPayload(k, d, len)
    \/ \E k \in Keys, d \in Dirs, end \in 1 .. MaxPosition, kind \in Kinds :
          /\ parsing = <<k, d>> /\ Complete(k, d, end, kind) /\ end > waited[k][d]
          /\ Ship(k, d, end, kind, ts[k][d])
          /\ UNCHANGED <<parsing, captured, pipelined>>
    \/ /\ pc = "idle"
       /\ \E k \in Keys, d \in Dirs :
             /\ parsing = <<k, d>>
             /\ RejectStream(k, d) \/ (Incomplete(k, d) /\ WaitForMore(k, d))
    \/ SlotStep /\ UNCHANGED bufferVars

LEMMA RedisStepKinds ==
    ASSUME Redis!Next
    PROVE  ~crashed /\ RedisKinds
<1>1. ~crashed
    BY DEF Redis!Next
<1>2. CASE \E k \in Keys, d \in Redis!Dirs, len \in 1 .. MaxSegment : Redis!AppendPayload(k, d, len)
  <2>1. PICK k \in Keys, d \in Dirs, len \in 1 .. MaxSegment : Redis!AppendPayload(k, d, len)
      BY <1>2 DEF Redis!Dirs
  <2>2. AppendPayload(k, d, len)
      BY <2>1, Zenon DEF Redis!AppendPayload, Redis!AppendFits, Redis!AppendOverflows, Redis!Captures,
          Redis!Aged, Redis!Dropped, Redis!Possible, Redis!Ahead, Redis!Number,
          Redis!Whole, Redis!Garbles, Redis!Legible, Redis!NoStream, Redis!slotVars,
          Redis!Dirs, AppendPayload, AppendFits, AppendOverflows, Captures, Aged, Dropped,
          Possible, Ahead, Number, Whole, Garbles, Legible, slotVars
  <2> QED BY <1>1, <2>2 DEF RedisKinds
<1>3. CASE Redis!ParseComplete
  <2>1. PICK k \in Keys, d \in Dirs, kind \in Kinds, end \in 1 .. MaxPosition :
           /\ parsing = <<k, d>> /\ Redis!Complete(k, d, end, kind) /\ end > waited[k][d]
           /\ Redis!Ship(k, d, end, kind, Redis!PrepareForNewMessage(k, d))
      BY <1>3 DEF Redis!ParseComplete, Redis!Dirs, Redis!Kinds
  <2>2. UNCHANGED <<parsing, captured, pipelined>>
      BY <1>3 DEF Redis!ParseComplete
  <2>3. Complete(k, d, end, kind) /\ Ship(k, d, end, kind, ts[k][d])
      BY <2>1, Zenon DEF Redis!PrepareForNewMessage, Redis!Ship, Redis!Handle, Redis!Complete, Redis!Legible, Redis!WireKind,
          Redis!Cut, Redis!Garbles, Redis!Misread, Redis!Dirs, Redis!Kinds,
          Redis!NoStream, Ship, Handle, Complete, Legible, WireKind, Cut, Garbles,
          Misread
  <2> QED BY <1>1, <2>1, <2>2, <2>3 DEF RedisKinds
<1>4. CASE Redis!ParseReject \/ Redis!ParseWait
  <2>1. PICK k \in Keys, d \in Dirs :
           /\ pc = "idle" /\ parsing = <<k, d>>
           /\ \/ Redis!RejectStream(k, d)
              \/ Redis!Incomplete(k, d) /\ Redis!WaitForMore(k, d)
      BY <1>4 DEF Redis!ParseReject, Redis!ParseWait, Redis!Dirs
  <2>2. Redis!RejectStream(k, d) => RejectStream(k, d)
      BY Zenon DEF Redis!RejectStream, Redis!Rejected, Redis!Legible, Redis!Dropped,
          Redis!Garbles, Redis!slotVars, Redis!NoStream, Redis!Dirs, RejectStream,
          Rejected, Legible, Dropped, Garbles, slotVars
  <2>3. Redis!Incomplete(k, d) /\ Redis!WaitForMore(k, d) => Incomplete(k, d) /\ WaitForMore(k, d)
      BY Zenon DEF Redis!WaitForMore, Redis!Incomplete, Redis!Rejected, Redis!Legible,
          Redis!Garbles, Redis!slotVars, Redis!NoStream, Redis!Dirs, WaitForMore,
          Incomplete, Rejected, Legible, Garbles, slotVars
  <2> QED BY <1>1, <2>1, <2>2, <2>3 DEF RedisKinds
<1>5. CASE Redis!RedisHandlerStep
  <2>1. HandlerStep
    <3>1. Redis!RequestReuse => RequestReuse
        BY DEF Redis!RequestReuse, RequestReuse, Redis!NoTrans
    <3>2. Redis!RequestOpen => RequestOpen
        BY DEF Redis!RequestOpen, RequestOpen, Redis!NoTrans
    <3>3. Redis!RequestTimer => RequestTimer
        BY DEF Redis!RequestTimer, RequestTimer, Redis!NoTrans
    <3>4. Redis!ResponseUnknown => ResponseUnknown
        BY DEF Redis!ResponseUnknown, ResponseUnknown, Redis!NoTrans
    <3>5. Redis!ResponseFound => ResponseFound
        BY DEF Redis!ResponseFound, ResponseFound, Redis!NoTrans
    <3>6. Redis!PublishTransaction => PublishTransaction
        BY DEF Redis!PublishTransaction, PublishTransaction, Redis!NoTrans
    <3>7. Redis!ResponseRemove => ResponseRemove
        BY DEF Redis!ResponseRemove, ResponseRemove, Redis!NoTrans
    <3>8. Redis!ResponseStop => ResponseStop
        BY DEF Redis!ResponseStop, ResponseStop, Redis!NoTrans
    <3> QED BY <3>1, <3>2, <3>3, <3>4, <3>5, <3>6, <3>7, <3>8, <1>5
           DEF Redis!RedisHandlerStep, HandlerStep
  <2>2. UNCHANGED bufferVars
      BY <1>5 DEF Redis!RedisHandlerStep, Redis!bufferVars, bufferVars
  <2> QED BY <1>1, <2>1, <2>2 DEF SlotStep, RedisKinds
<1>6. CASE (\E t \in Redis!TransIds : Redis!TimerStep(t)) /\ UNCHANGED Redis!bufferVars
  <2>1. \E t \in TransIds : TimerStep(t)
    <3>1. PICK t \in TransIds : Redis!TimerStep(t)
        BY <1>6 DEF Redis!TransIds
    <3>2. TimerFires(t) \/ expireTransaction(t)
        BY <3>1 DEF Redis!TimerStep, Redis!NoTrans, Redis!TimerFires,
            Redis!expireTransaction, TimerFires, expireTransaction
    <3> QED BY <3>2 DEF TimerStep
  <2> QED BY <1>1, <1>6, <2>1 DEF Redis!bufferVars, bufferVars, SlotStep, RedisKinds
<1>7. CASE (Redis!PublisherReceive \/ Redis!RuntimeAbort) /\ UNCHANGED Redis!bufferVars
  <2>1. PublisherReceive \/ RuntimeAbort
      BY <1>7 DEF Redis!PublisherReceive, Redis!RuntimeAbort, Redis!ConcurrentAccess,
          Redis!TransIds, PublisherReceive, RuntimeAbort, ConcurrentAccess, TransIds
  <2> QED BY <1>1, <1>7, <2>1 DEF Redis!bufferVars, bufferVars, SlotStep, RedisKinds
<1> QED BY <1>2, <1>3, <1>4, <1>5, <1>6, <1>7 DEF Redis!Next, Redis!ParseStep

LEMMA MysqlStepKinds ==
    ASSUME Mysql!Next, closed = {}, msg.key \in Keys
    PROVE  ~crashed /\ BufferStep
<1>1. ~crashed
    BY DEF Mysql!Next
<1>2. CASE \E k \in Keys, d \in Mysql!Dirs, len \in 1 .. MaxSegment : Mysql!AppendPayload(k, d, len)
  <2>1. PICK k \in Keys, d \in Dirs, len \in 1 .. MaxSegment : Mysql!AppendPayload(k, d, len)
      BY <1>2 DEF Mysql!Dirs
  <2>2. AppendPayload(k, d, len)
      BY <2>1, Zenon DEF Mysql!AppendPayload, Mysql!AppendFits, Mysql!AppendOverflows, Mysql!Captures,
          Mysql!Aged, Mysql!Dropped, Mysql!Possible, Mysql!Ahead, Mysql!Number,
          Mysql!Whole, Mysql!Garbles, Mysql!Legible, Mysql!NoStream, Mysql!slotVars,
          Mysql!Dirs, AppendPayload, AppendFits, AppendOverflows, Captures, Aged,
          Dropped, Possible, Ahead, Number, Whole, Garbles, Legible, slotVars
  <2>3. <<k, d>> \notin closed
      OBVIOUS
  <2> QED BY <1>1, <2>2, <2>3 DEF BufferStep
<1>3. CASE Mysql!ParseComplete
  <2>1. PICK k \in Keys, d \in Dirs, kind \in Kinds, end \in 1 .. MaxPosition :
           /\ parsing = <<k, d>> /\ Mysql!Complete(k, d, end, kind)
           /\ Mysql!Ship(k, d, end, kind, Mysql!NextMessage(k, d, end))
      BY <1>3 DEF Mysql!ParseComplete, Mysql!Dirs, Mysql!Kinds
  <2>2. UNCHANGED <<parsing, captured, pipelined>>
      BY <1>3 DEF Mysql!ParseComplete
  <2>3. PICK next \in Times : next = Mysql!NextMessage(k, d, end)
      BY DEF Mysql!NextMessage, Times
  <2>4. Mysql!Ship(k, d, end, kind, next)
      BY <2>1, <2>3
  <2>5. Complete(k, d, end, kind) /\ Ship(k, d, end, kind, next)
      BY <2>1, <2>4, Zenon DEF Mysql!Ship, Mysql!Handle, Mysql!Complete, Mysql!Legible, Mysql!WireKind,
          Mysql!Cut, Mysql!Garbles, Mysql!Misread, Mysql!Dirs, Mysql!Kinds,
          Mysql!NoStream, Ship, Handle, Complete, Legible, WireKind, Cut, Garbles,
          Misread
  <2>6. Shipped(k, d, end, kind)
      BY <2>1, <2>2, <2>5 DEF Shipped, Ship, Cut
  <2> QED BY <1>1, <2>2, <2>6 DEF BufferStep
<1>4. CASE Mysql!ParseIgnore
  <2>1. PICK k \in Keys, d \in Dirs, end \in 1 .. MaxPosition :
           /\ parsing = <<k, d>> /\ Mysql!Complete(k, d, end, Mysql!WireKind(d))
           /\ Mysql!Cut(k, d, end, Mysql!NextMessage(k, d, end))
      BY <1>4 DEF Mysql!ParseIgnore, Mysql!Dirs
  <2>2. Skipped(k, d, end)
      BY <1>4, <2>1 DEF Mysql!ParseIgnore, Skipped, Mysql!Cut, Mysql!Complete, Mysql!slotVars, slotVars
  <2> QED BY <1>1, <2>2 DEF BufferStep
<1>5. CASE Mysql!ParseReject \/ Mysql!ParseWait
  <2>1. PICK k \in Keys, d \in Dirs :
           \/ Mysql!RejectStream(k, d)
           \/ Mysql!Incomplete(k, d) /\ Mysql!WaitForMore(k, d)
      BY <1>5 DEF Mysql!ParseReject, Mysql!ParseWait, Mysql!Dirs
  <2>2. Mysql!RejectStream(k, d) => RejectStream(k, d)
      BY Zenon DEF Mysql!RejectStream, Mysql!Rejected, Mysql!Legible, Mysql!Dropped,
          Mysql!Garbles, Mysql!slotVars, Mysql!NoStream, Mysql!Dirs, RejectStream,
          Rejected, Legible, Dropped, Garbles, slotVars
  <2>3. Mysql!Incomplete(k, d) /\ Mysql!WaitForMore(k, d) => WaitForMore(k, d)
      BY Zenon DEF Mysql!WaitForMore, Mysql!Incomplete, Mysql!Rejected, Mysql!Legible,
          Mysql!Garbles, Mysql!slotVars, Mysql!NoStream, Mysql!Dirs, WaitForMore,
          Incomplete, Rejected, Legible, Garbles, slotVars
  <2> QED BY <1>1, <2>1, <2>2, <2>3 DEF BufferStep
<1>6. CASE Mysql!parseMysqlResponsePanic \/ Mysql!mysqlMessageParserPanic
  <2>1. PICK k \in Keys : Mysql!LoseStream(k) /\ (UNCHANGED Mysql!slotVars \/ Mysql!ResponsePanic)
      BY <1>6 DEF Mysql!parseMysqlResponsePanic, Mysql!mysqlMessageParserPanic
  <2>2. Lost(k)
      BY <2>1, Zenon DEF Lost, Mysql!LoseStream, Mysql!Garbles, Mysql!NoStream, Mysql!Dirs, Mysql!slotVars,
          Mysql!ResponsePanic, LoseStream, Garbles, slotVars, ResponsePanic
  <2> QED BY <1>1, <2>2 DEF BufferStep
<1>7. ASSUME Mysql!receivedMysqlRequest \/ Mysql!receivedMysqlResponse PROVE SlotStep
  <2>1. HandlerStep
    <3>1. Mysql!RequestReuse => RequestReuse
        BY DEF Mysql!RequestReuse, RequestReuse, Mysql!NoTrans
    <3>2. Mysql!RequestOpen => RequestOpen
        BY DEF Mysql!RequestOpen, RequestOpen, Mysql!NoTrans
    <3>3. Mysql!RequestTimer => RequestTimer
        BY DEF Mysql!RequestTimer, RequestTimer, Mysql!NoTrans
    <3>4. Mysql!ResponseUnknown => ResponseUnknown
        BY DEF Mysql!ResponseUnknown, ResponseUnknown, Mysql!NoTrans
    <3>5. Mysql!ResponseFound => ResponseFound
        BY DEF Mysql!ResponseFound, ResponseFound, Mysql!NoTrans
    <3>6. Mysql!PublishTransaction => PublishTransaction
        BY DEF Mysql!PublishTransaction, PublishTransaction, Mysql!NoTrans
    <3>7. Mysql!ResponseRemove => ResponseRemove
        BY DEF Mysql!ResponseRemove, ResponseRemove, Mysql!NoTrans
    <3>8. Mysql!ResponseStop => ResponseStop
        BY DEF Mysql!ResponseStop, ResponseStop, Mysql!NoTrans
    <3> QED BY <3>1, <3>2, <3>3, <3>4, <3>5, <3>6, <3>7, <3>8, <1>7
           DEF Mysql!receivedMysqlRequest, Mysql!receivedMysqlResponse,
               Mysql!publishMysqlTransaction, HandlerStep
  <2> QED BY <2>1 DEF SlotStep
<1>8. ASSUME \E t \in Mysql!TransIds : Mysql!TimerFires(t) \/ Mysql!mysqlExpireTransaction(t)
      PROVE  SlotStep
  <2>1. \E t \in TransIds : TimerStep(t)
    <3>1. PICK t \in TransIds : Mysql!TimerFires(t) \/ Mysql!mysqlExpireTransaction(t)
        BY <1>8 DEF Mysql!TransIds
    <3>2. TimerFires(t) \/ expireTransaction(t)
        BY <3>1 DEF Mysql!mysqlExpireTransaction, Mysql!NoTrans, Mysql!TimerFires,
            Mysql!expireTransaction, TimerFires, expireTransaction
    <3> QED BY <3>2 DEF TimerStep
  <2> QED BY <2>1 DEF SlotStep
<1>9. ASSUME Mysql!PublisherReceive \/ Mysql!RuntimeAbort PROVE SlotStep
  <2>1. PublisherReceive \/ RuntimeAbort
      BY <1>9 DEF Mysql!TransIds, Mysql!PublisherReceive, Mysql!RuntimeAbort,
          Mysql!ConcurrentAccess, PublisherReceive, RuntimeAbort, ConcurrentAccess
  <2> QED BY <2>1 DEF SlotStep
<1>10. CASE SlotStep /\ UNCHANGED Mysql!bufferVars
    BY <1>1, <1>10 DEF Mysql!bufferVars, bufferVars, BufferStep
<1> QED BY <1>2, <1>3, <1>4, <1>5, <1>6, <1>7, <1>8, <1>9, <1>10 DEF Mysql!Next

\* ReceivedFin with a message in the works, and without.
FinShipped(k, d, kind) ==
    /\ parsing = NoStream /\ <<k, d>> \notin closed /\ base[k][d] < captured[k][d]
    /\ Handle([key |-> k, dir |-> d, kind |-> kind, n |-> captured[k][d]])
    /\ closed' = closed \cup {<<k, d>>}
    /\ UNCHANGED <<base, captured, parsing>>

FinIgnored(k, d) ==
    /\ parsing = NoStream
    /\ closed' = closed \cup {<<k, d>>}
    /\ UNCHANGED pluginVars

HttpKinds ==
    \/ BufferStep /\ UNCHANGED closed
    \/ \E k \in Keys, d \in Dirs, kind \in Kinds : FinShipped(k, d, kind)
    \/ \E k \in Keys, d \in Dirs : FinIgnored(k, d)

LEMMA HttpStepKinds ==
    ASSUME Http!Next
    PROVE  ~crashed /\ HttpKinds
<1>1. ~crashed
    BY DEF Http!Next
<1>2. CASE \E k \in Keys, d \in Http!Dirs, len \in 1 .. MaxSegment : Http!httpAppendPayload(k, d, len)
  <2>0. PICK k \in Keys, d \in Dirs, len \in 1 .. MaxSegment : Http!httpAppendPayload(k, d, len)
      BY <1>2 DEF Http!Dirs
  <2>1. Http!AppendPayload(k, d, len) /\ <<k, d>> \notin closed /\ UNCHANGED closed
      BY <2>0 DEF Http!httpAppendPayload
  <2>2. AppendPayload(k, d, len)
      BY <2>1, Zenon DEF Http!AppendPayload, Http!AppendFits, Http!AppendOverflows, Http!Captures,
          Http!Aged, Http!Dropped, Http!Possible, Http!Ahead, Http!Number, Http!Whole,
          Http!Garbles, Http!Legible, Http!NoStream, Http!slotVars, Http!Dirs,
          AppendPayload, AppendFits, AppendOverflows, Captures, Aged, Dropped, Possible,
          Ahead, Number, Whole, Garbles, Legible, slotVars
  <2> QED BY <1>1, <2>1, <2>2 DEF BufferStep, HttpKinds
<1>3. CASE Http!ParseComplete
  <2>1. PICK k \in Keys, d \in Dirs, kind \in Kinds, end \in 1 .. MaxPosition :
           /\ parsing = <<k, d>> /\ Http!Complete(k, d, end, kind)
           /\ Http!Ship(k, d, end, kind, "none")
      BY <1>3 DEF Http!ParseComplete, Http!Dirs, Http!Kinds
  <2>2. parsing' = NoStream /\ UNCHANGED <<captured, pipelined, closed>>
      BY <1>3 DEF Http!ParseComplete, Http!NoStream
  <2>3. PICK next \in Times : next = "none"
      BY DEF Times
  <2>4. Http!Ship(k, d, end, kind, next)
      BY <2>1, <2>3
  <2>5. Complete(k, d, end, kind) /\ Ship(k, d, end, kind, next)
      BY <2>1, <2>4, Zenon DEF Http!Ship, Http!Handle, Http!Complete, Http!Legible, Http!WireKind, Http!Cut,
          Http!Garbles, Http!Misread, Http!Dirs, Http!Kinds, Http!NoStream, Ship,
          Handle, Complete, Legible, WireKind, Cut, Garbles, Misread
  <2>6. Shipped(k, d, end, kind)
      BY <2>1, <2>2, <2>5 DEF Shipped, Ship, Cut
  <2> QED BY <1>1, <2>2, <2>6 DEF BufferStep, HttpKinds
<1>4. CASE \E k \in Keys, d \in Http!Dirs : Http!ReceivedFinShip(k, d) \/ Http!ReceivedFinNothing(k, d)
  <2>1. PICK k \in Keys, d \in Dirs : Http!ReceivedFinShip(k, d) \/ Http!ReceivedFinNothing(k, d)
      BY <1>4 DEF Http!Dirs
  <2>2. CASE Http!ReceivedFinShip(k, d)
    <3>1. PICK kind \in Kinds :
             Http!Handle([key |-> k, dir |-> d, kind |-> kind, n |-> captured[k][d]])
        BY <2>2 DEF Http!ReceivedFinShip, Http!Kinds
    <3>2. FinShipped(k, d, kind)
        BY <2>2, <3>1, Zenon DEF Http!ReceivedFinShip, FinShipped, Http!Handle, Handle, Http!NoStream
    <3> QED BY <1>1, <3>2 DEF HttpKinds
  <2>3. CASE Http!ReceivedFinNothing(k, d)
    <3>1. FinIgnored(k, d)
        BY <2>3, Zenon DEF Http!ReceivedFinNothing, FinIgnored, Http!NoStream, Http!pluginVars,
            Http!slotVars, Http!bufferVars, pluginVars, slotVars, bufferVars
    <3> QED BY <1>1, <3>1 DEF HttpKinds
  <2> QED BY <2>1, <2>2, <2>3
<1>5. CASE Http!ParseReject \/ Http!ParseWait
  <2>1. PICK k \in Keys, d \in Dirs :
           \/ Http!RejectStream(k, d)
           \/ Http!Incomplete(k, d) /\ Http!WaitForMore(k, d)
      BY <1>5 DEF Http!ParseReject, Http!ParseWait, Http!Dirs
  <2>4. UNCHANGED closed
      BY <1>5 DEF Http!ParseReject, Http!ParseWait
  <2>2. Http!RejectStream(k, d) => RejectStream(k, d)
      BY Zenon DEF Http!RejectStream, Http!Rejected, Http!Legible, Http!Dropped, Http!Garbles,
          Http!slotVars, Http!NoStream, Http!Dirs, RejectStream, Rejected, Legible,
          Dropped, Garbles, slotVars
  <2>3. Http!Incomplete(k, d) /\ Http!WaitForMore(k, d) => WaitForMore(k, d)
      BY Zenon DEF Http!WaitForMore, Http!Incomplete, Http!Rejected, Http!Legible, Http!Garbles,
          Http!slotVars, Http!NoStream, Http!Dirs, WaitForMore, Incomplete, Rejected,
          Legible, Garbles, slotVars
  <2> QED BY <1>1, <2>1, <2>2, <2>3, <2>4 DEF BufferStep, HttpKinds
<1>6. CASE Http!messageParserPanic
  <2>1. PICK k \in Keys : Http!LoseStream(k) /\ UNCHANGED <<Http!slotVars, closed>>
      BY <1>6 DEF Http!messageParserPanic, Http!Dirs
  <2>2. Lost(k)
      BY <2>1, Zenon DEF Lost, Http!LoseStream, Http!Garbles, Http!NoStream, Http!Dirs, Http!slotVars,
          Http!ResponsePanic, LoseStream, Garbles, slotVars, ResponsePanic
  <2> QED BY <1>1, <2>1, <2>2 DEF BufferStep, HttpKinds
<1>7. ASSUME Http!receivedHttpRequest \/ Http!receivedHttpResponse PROVE SlotStep
  <2>1. HandlerStep
    <3>1. Http!RequestReuse => RequestReuse
        BY DEF Http!RequestReuse, RequestReuse, Http!NoTrans
    <3>2. Http!RequestOpen => RequestOpen
        BY DEF Http!RequestOpen, RequestOpen, Http!NoTrans
    <3>3. Http!RequestTimer => RequestTimer
        BY DEF Http!RequestTimer, RequestTimer, Http!NoTrans
    <3>4. Http!ResponseUnknown => ResponseUnknown
        BY DEF Http!ResponseUnknown, ResponseUnknown, Http!NoTrans
    <3>5. Http!ResponseFound => ResponseFound
        BY DEF Http!ResponseFound, ResponseFound, Http!NoTrans
    <3>6. Http!PublishTransaction => PublishTransaction
        BY DEF Http!PublishTransaction, PublishTransaction, Http!NoTrans
    <3>7. Http!ResponseRemove => ResponseRemove
        BY DEF Http!ResponseRemove, ResponseRemove, Http!NoTrans
    <3>8. Http!ResponseStop => ResponseStop
        BY DEF Http!ResponseStop, ResponseStop, Http!NoTrans
    <3> QED BY <3>1, <3>2, <3>3, <3>4, <3>5, <3>6, <3>7, <3>8, <1>7
           DEF Http!receivedHttpRequest, Http!receivedHttpResponse,
               Http!httpPublishTransaction, HandlerStep
  <2> QED BY <2>1 DEF SlotStep
<1>8. ASSUME \E t \in Http!TransIds : Http!TimerFires(t) \/ Http!httpExpireTransaction(t)
      PROVE  SlotStep
  <2>1. \E t \in TransIds : TimerStep(t)
    <3>1. PICK t \in TransIds : Http!TimerFires(t) \/ Http!httpExpireTransaction(t)
        BY <1>8 DEF Http!TransIds
    <3>2. TimerFires(t) \/ expireTransaction(t)
        BY <3>1 DEF Http!httpExpireTransaction, Http!NoTrans, Http!TimerFires,
            Http!expireTransaction, TimerFires, expireTransaction
    <3> QED BY <3>2 DEF TimerStep
  <2> QED BY <2>1 DEF SlotStep
<1>9. ASSUME Http!PublisherReceive \/ Http!RuntimeAbort PROVE SlotStep
  <2>1. PublisherReceive \/ RuntimeAbort
      BY <1>9 DEF Http!TransIds, Http!PublisherReceive, Http!RuntimeAbort,
          Http!ConcurrentAccess, PublisherReceive, RuntimeAbort, ConcurrentAccess
  <2> QED BY <2>1 DEF SlotStep
<1>10. CASE SlotStep /\ UNCHANGED <<Http!bufferVars, closed>>
    BY <1>1, <1>10 DEF Http!bufferVars, bufferVars, BufferStep, HttpKinds
<1> QED BY <1>2, <1>3, <1>4, <1>5, <1>6, <1>7, <1>8, <1>9, <1>10 DEF Http!Next

-------------------------------------------------------------------------------
(* Every step of a plugin is a step of the correlator.                     *)

LEMMA RedisBuffer ==
    ASSUME RedisKinds, closed = {}
    PROVE  BufferStep
<1>1. \A k \in Keys, d \in Dirs : <<k, d>> \notin closed
    OBVIOUS
<1>2. ASSUME NEW k \in Keys, NEW d \in Dirs, NEW end \in 1 .. MaxPosition, NEW kind \in Kinds,
             parsing = <<k, d>>, Complete(k, d, end, kind), Ship(k, d, end, kind, ts[k][d]),
             UNCHANGED <<parsing, captured, pipelined>>
      PROVE  Shipped(k, d, end, kind)
    BY <1>2 DEF Shipped, Ship, Cut
<1> QED BY <1>1, <1>2 DEF RedisKinds, BufferStep

LEMMA WireInit == Init => WireInv
<1> SUFFICES ASSUME Init PROVE WireInv
    OBVIOUS
<1>1. /\ captured \in [Keys -> [Dirs -> 0 .. 2]] /\ base = captured
      /\ last = [k \in Keys |-> [d \in Dirs |-> 0]]
      /\ parsing = NoStream /\ closed = {} /\ protocol \in {"redis", "mysql", "http"}
    BY DEF Init, PluginInit, SlotInit
<1>2. captured \in Positions
    BY <1>1 DEF Positions
<1>3. ASSUME NEW k \in Keys, NEW d \in Dirs
      PROVE  /\ base[k][d] <= captured[k][d] /\ captured[k][d] <= MaxPosition
             /\ last[k][d] <= base[k][d] /\ parsing # <<k, d>>
  <2>1. captured[k][d] \in 0 .. 2 /\ base[k][d] = captured[k][d] /\ last[k][d] = 0
      BY <1>1
  <2>2. MaxPosition \in Nat /\ MaxPosition > 1
      BY SlotAssumption, BufferAssumption
  <2> QED BY <1>1, <2>1, <2>2
<1> QED BY <1>1, <1>2, <1>3 DEF WireInv

LEMMA SlotStepNext ==
    ASSUME SlotStep, ~crashed
    PROVE  SlotNext /\ UNCHANGED last
<1>1. SlotNext
    BY DEF SlotStep, SlotNext
<1>2. UNCHANGED last
    BY DEF SlotStep, HandlerStep, TimerStep, RequestReuse, RequestOpen, RequestTimer,
        ResponseUnknown, ResponseFound, PublishTransaction, ResponsePanic, ResponseRemove,
        ResponseStop, TimerFires, expireTransaction, PublisherReceive, RuntimeAbort
<1> QED BY <1>1, <1>2

\* What the next message ends with lies behind all that was handled.
LEMMA HandleArrives ==
    ASSUME SlotInv, ~crashed, NEW k \in Keys, NEW d \in Dirs, NEW kind \in Kinds,
           NEW n \in 1 .. MaxPosition, n > last[k][d],
           Handle([key |-> k, dir |-> d, kind |-> kind, n |-> n])
    PROVE  /\ SlotNext
           /\ \A j \in Keys, e \in Dirs : last'[j][e] = IF j = k /\ e = d THEN n ELSE last[j][e]
<1> DEFINE m == [key |-> k, dir |-> d, kind |-> kind, n |-> n]
<1>1. m \in Messages /\ Arrive(m)
    BY DEF Messages, Arrive
<1>2. last \in [Keys -> [Dirs -> 0 .. MaxPosition]]
    BY DEF SlotInv, SlotTypeOK, EventType
<1>3. last' = [last EXCEPT ![k][d] = n]
    BY DEF Handle
<1> QED BY <1>1, <1>2, <1>3 DEF SlotNext

\* The shared steps of the plugins keep the buffers in order.
LEMMA BufferSlot ==
    ASSUME WireInv, SlotInv, ~crashed, BufferStep, UNCHANGED <<closed, protocol>>
    PROVE  WireInv' /\ [SlotNext]_slotVars
<1> DEFINE Rest == \A j \in Keys, e \in Dirs :
                     /\ base[j][e] <= captured[j][e] /\ captured[j][e] <= MaxPosition
                     /\ parsing = <<j, e>> => <<j, e>> \notin closed
                     /\ <<j, e>> \notin closed => last[j][e] <= base[j][e]
<1> DEFINE Grown == \A j \in Keys, e \in Dirs :
                      /\ captured'[j][e] \in Nat /\ captured'[j][e] <= MaxPosition
                      /\ captured[j][e] <= captured'[j][e]
<1>1. /\ base \in Positions /\ captured \in Positions /\ Rest
      /\ parsing \in {NoStream} \cup (Keys \X Dirs)
    BY DEF WireInv
<1>2. /\ \A j \in Keys, e \in Dirs : base[j][e] \in Nat /\ captured[j][e] \in Nat
      /\ \A j \in Keys, e \in Dirs : last[j][e] \in Nat
      /\ MaxPosition \in Nat
    BY <1>1, SlotAssumption DEF Positions, SlotInv, SlotTypeOK, EventType
<1>0. captured' = captured => Grown
  <2>1. ASSUME NEW j \in Keys, NEW e \in Dirs
        PROVE  captured[j][e] \in Nat /\ captured[j][e] <= MaxPosition
      BY <1>1, <1>2
  <2> QED BY <2>1
<1>3. SUFFICES /\ base' \in Positions /\ captured' \in Positions
               /\ parsing' \in {NoStream} \cup (Keys \X Dirs)
               /\ Rest' /\ [SlotNext]_slotVars
    BY DEF WireInv
<1>4. ASSUME NEW k \in Keys, NEW d \in Dirs, NEW p \in Nat, p <= captured'[k][d],
             base[k][d] <= p,
             base' = [base EXCEPT ![k][d] = p],
             UNCHANGED slotVars, parsing' \in {parsing, NoStream},
             captured' \in Positions, Grown
      PROVE  /\ base' \in Positions /\ captured' \in Positions
             /\ parsing' \in {NoStream} \cup (Keys \X Dirs)
             /\ Rest' /\ [SlotNext]_slotVars
  <2>1. /\ base' \in Positions
        /\ \A j \in Keys, e \in Dirs : base'[j][e] = IF j = k /\ e = d THEN p ELSE base[j][e]
    <3>1. base \in Positions /\ k \in Keys /\ d \in Dirs /\ p \in Nat /\ base' = [base EXCEPT ![k][d] = p]
        BY <1>1, <1>4
    <3> QED BY <3>1 DEF Positions
  <2>2. last' = last
      BY <1>4 DEF slotVars
  <2>3. ASSUME NEW j \in Keys, NEW e \in Dirs
        PROVE  /\ base'[j][e] <= captured'[j][e] /\ captured'[j][e] <= MaxPosition
               /\ <<j, e>> \notin closed => last[j][e] <= base'[j][e]
    <3>1. /\ base[j][e] <= captured[j][e] /\ captured[j][e] <= captured'[j][e]
          /\ captured'[j][e] <= MaxPosition
          /\ <<j, e>> \notin closed => last[j][e] <= base[j][e]
        BY <1>1, <1>4
    <3>2. base[j][e] <= base'[j][e] /\ base'[j][e] <= captured'[j][e]
        BY <1>2, <1>4, <2>1, <3>1
    <3> QED BY <1>2, <1>4, <2>1, <3>1, <3>2
  <2>4. \A j \in Keys, e \in Dirs : parsing' = <<j, e>> => <<j, e>> \notin closed
    <3>1. \A j \in Keys, e \in Dirs : parsing = <<j, e>> => <<j, e>> \notin closed
        BY <1>1
    <3>2. \A j \in Keys, e \in Dirs : NoStream # <<j, e>>
        OBVIOUS
    <3>3. parsing' = parsing \/ parsing' = NoStream
        BY <1>4
    <3> QED BY <3>1, <3>2, <3>3
  <2> QED BY <1>1, <1>4, <2>1, <2>2, <2>3, <2>4
<1>5. ASSUME NEW k \in Keys, NEW d \in Dirs, NEW len \in 1 .. MaxSegment,
             Captures(k, d, len)
      PROVE  /\ captured' \in Positions /\ captured'[k][d] = captured[k][d] + len
             /\ Grown /\ UNCHANGED slotVars
  <2>0. len \in Nat /\ captured[k][d] + len \in Nat
      BY <1>2, BufferAssumption
  <2>1. /\ captured' = [captured EXCEPT ![k][d] = captured[k][d] + len]
        /\ captured'[k][d] <= MaxPosition /\ UNCHANGED slotVars
      BY <1>1, <1>5 DEF Captures, Positions
  <2>2. /\ captured' \in Positions
        /\ \A j \in Keys, e \in Dirs :
              captured'[j][e] = IF j = k /\ e = d THEN captured[k][d] + len ELSE captured[j][e]
    <3>1. captured \in Positions
        BY <1>1
    <3> QED BY <2>0, <2>1, <3>1 DEF Positions
  <2>3. \A j \in Keys, e \in Dirs : captured[j][e] <= MaxPosition
      BY <1>1
  <2> QED BY <1>2, <2>0, <2>1, <2>2, <2>3
<1>6. ASSUME NEW k \in Keys, NEW d \in Dirs, NEW len \in 1 .. MaxSegment,
             <<k, d>> \notin closed, AppendFits(k, d, len)
      PROVE  /\ base' \in Positions /\ captured' \in Positions
             /\ parsing' \in {NoStream} \cup (Keys \X Dirs)
             /\ Rest' /\ [SlotNext]_slotVars
  <2>1. Captures(k, d, len) /\ parsing' = <<k, d>> /\ base' = base
      BY <1>6 DEF AppendFits
  <2>2. last' = last
      BY <1>5, <2>1 DEF slotVars
  <2>3. ASSUME NEW j \in Keys, NEW e \in Dirs
        PROVE  base[j][e] <= captured'[j][e]
    <3>1. base[j][e] <= captured[j][e] /\ captured[j][e] <= captured'[j][e] /\ captured'[j][e] \in Nat
        BY <1>1, <1>5, <2>1
    <3> QED BY <1>2, <3>1
  <2> QED BY <1>1, <1>5, <1>6, <2>1, <2>2, <2>3
<1>7. ASSUME NEW k \in Keys, NEW d \in Dirs, NEW len \in 1 .. MaxSegment,
             AppendOverflows(k, d, len)
      PROVE  /\ base' \in Positions /\ captured' \in Positions
             /\ parsing' \in {NoStream} \cup (Keys \X Dirs)
             /\ Rest' /\ [SlotNext]_slotVars
  <2>1. /\ Captures(k, d, len) /\ parsing' = NoStream
        /\ base' = [base EXCEPT ![k][d] = captured[k][d] + len]
      BY <1>7 DEF AppendOverflows, Dropped
  <2>2. base[k][d] <= captured'[k][d] /\ captured'[k][d] \in Nat
    <3>1. base[k][d] <= captured[k][d] /\ captured[k][d] <= captured'[k][d] /\ captured'[k][d] \in Nat
        BY <1>1, <1>5, <2>1
    <3> QED BY <1>2, <3>1
  <2>3. /\ captured' \in Positions /\ Grown /\ UNCHANGED slotVars
        /\ captured[k][d] + len = captured'[k][d] /\ captured'[k][d] <= captured'[k][d]
      BY <1>5, <2>1, <2>2
  <2>4. base' = [base EXCEPT ![k][d] = captured'[k][d]] /\ parsing' \in {parsing, NoStream}
      BY <2>1, <2>3
  <2> HIDE DEF Grown, Rest
  <2> QED BY <1>4, <2>2, <2>3, <2>4
<1>8. ASSUME NEW k \in Keys, NEW d \in Dirs, RejectStream(k, d)
      PROVE  /\ base' \in Positions /\ captured' \in Positions
             /\ parsing' \in {NoStream} \cup (Keys \X Dirs)
             /\ Rest' /\ [SlotNext]_slotVars
  <2>1. /\ base' = [base EXCEPT ![k][d] = captured[k][d]] /\ parsing' = NoStream
        /\ captured' = captured /\ UNCHANGED slotVars
      BY <1>8 DEF RejectStream, Dropped
  <2>2. /\ captured' \in Positions /\ Grown /\ captured[k][d] \in Nat
        /\ captured[k][d] <= captured'[k][d] /\ base[k][d] <= captured[k][d]
      BY <1>0, <1>1, <1>2, <2>1
  <2> HIDE DEF Grown, Rest
  <2> QED BY <1>4, <2>1, <2>2
<1>9. ASSUME NEW k \in Keys, NEW d \in Dirs, NEW end \in 1 .. MaxPosition, Skipped(k, d, end)
      PROVE  /\ base' \in Positions /\ captured' \in Positions
             /\ parsing' \in {NoStream} \cup (Keys \X Dirs)
             /\ Rest' /\ [SlotNext]_slotVars
  <2>1. /\ base' = [base EXCEPT ![k][d] = end] /\ parsing' = parsing
        /\ captured' = captured /\ UNCHANGED slotVars /\ end \in base[k][d] + 1 .. captured[k][d]
      BY <1>9 DEF Skipped
  <2>2. end \in Nat /\ end <= captured'[k][d] /\ base[k][d] <= end
      BY <1>2, <2>1
  <2>3. captured' \in Positions /\ Grown
      BY <1>0, <1>1, <2>1
  <2> HIDE DEF Grown, Rest
  <2> QED BY <1>4, <2>1, <2>2, <2>3
<1>10. ASSUME NEW k \in Keys, NEW d \in Dirs, WaitForMore(k, d)
      PROVE  /\ base' \in Positions /\ captured' \in Positions
             /\ parsing' \in {NoStream} \cup (Keys \X Dirs)
             /\ Rest' /\ [SlotNext]_slotVars
  <2>1. /\ base' = base /\ parsing' = NoStream /\ captured' = captured /\ UNCHANGED slotVars
      BY <1>10 DEF WaitForMore
  <2>2. last' = last
      BY <2>1 DEF slotVars
  <2> QED BY <1>1, <2>1, <2>2
<1>11. ASSUME NEW k \in Keys, Lost(k)
      PROVE  /\ base' \in Positions /\ captured' \in Positions
             /\ parsing' \in {NoStream} \cup (Keys \X Dirs)
             /\ Rest' /\ [SlotNext]_slotVars
  <2>1. /\ base' = [base EXCEPT ![k] = captured[k]] /\ parsing' = NoStream /\ captured' = captured
        /\ UNCHANGED slotVars \/ ResponsePanic
      BY <1>11 DEF Lost, LoseStream
  <2>2. base' \in Positions
      BY <1>1, <2>1 DEF Positions
  <2>3. last' = last /\ [SlotNext]_slotVars
      BY <2>1 DEF slotVars, ResponsePanic, SlotNext, HandlerStep
  <2>4. \A j \in Keys, e \in Dirs : base'[j][e] = IF j = k THEN captured[j][e] ELSE base[j][e]
      BY <1>1, <2>1 DEF Positions
  <2>5. ASSUME NEW j \in Keys, NEW e \in Dirs
        PROVE  /\ base'[j][e] <= captured[j][e]
               /\ <<j, e>> \notin closed => last[j][e] <= base'[j][e]
    <3>1. /\ base[j][e] <= captured[j][e] /\ base[j][e] \in Nat /\ captured[j][e] \in Nat
          /\ last[j][e] \in Nat
          /\ <<j, e>> \notin closed => last[j][e] <= base[j][e]
        BY <1>1, <1>2
    <3>2. base'[j][e] = captured[j][e] \/ base'[j][e] = base[j][e]
        BY <2>4
    <3> QED BY <3>1, <3>2
  <2> QED BY <1>1, <2>1, <2>2, <2>3, <2>5
<1>12. CASE SlotStep /\ UNCHANGED bufferVars
  <2>1. SlotNext /\ last' = last
      BY <1>12, SlotStepNext
  <2>2. base' = base /\ captured' = captured /\ parsing' = parsing
      BY <1>12 DEF bufferVars
  <2> QED BY <1>1, <2>1, <2>2
<1>13. ASSUME NEW k \in Keys, NEW d \in Dirs, NEW end \in 1 .. MaxPosition, NEW kind \in Kinds,
              Shipped(k, d, end, kind)
      PROVE  /\ base' \in Positions /\ captured' \in Positions
             /\ parsing' \in {NoStream} \cup (Keys \X Dirs)
             /\ Rest' /\ [SlotNext]_slotVars
  <2>1. /\ base' = [base EXCEPT ![k][d] = end] /\ captured' = captured
        /\ parsing = <<k, d>> /\ parsing' \in {parsing, NoStream}
        /\ end \in base[k][d] + 1 .. captured[k][d]
        /\ Handle([key |-> k, dir |-> d, kind |-> kind, n |-> end])
      BY <1>13 DEF Shipped, Complete
  <2>2. end \in Nat /\ end <= captured[k][d] /\ base[k][d] < end
      BY <1>2, <2>1
  <2>3. last[k][d] <= base[k][d]
      BY <1>1, <2>1
  <2>4. end > last[k][d]
      BY <1>2, <2>2, <2>3
  <2>5. SlotNext /\ \A j \in Keys, e \in Dirs :
                       last'[j][e] = IF j = k /\ e = d THEN end ELSE last[j][e]
      BY <2>1, <2>4, HandleArrives
  <2>6. /\ base' \in Positions
        /\ \A j \in Keys, e \in Dirs : base'[j][e] = IF j = k /\ e = d THEN end ELSE base[j][e]
    <3>1. base \in Positions
        BY <1>1
    <3> QED BY <2>1, <2>2, <3>1 DEF Positions
  <2>7. ASSUME NEW j \in Keys, NEW e \in Dirs
        PROVE  /\ base'[j][e] <= captured[j][e]
               /\ <<j, e>> \notin closed => last'[j][e] <= base'[j][e]
    <3>1. /\ base[j][e] <= captured[j][e]
          /\ <<j, e>> \notin closed => last[j][e] <= base[j][e]
        BY <1>1
    <3>2. CASE j = k /\ e = d
      <4>1. base'[j][e] = end /\ last'[j][e] = end
          BY <2>5, <2>6, <3>2
      <4> QED BY <2>2, <3>2, <4>1
    <3>3. CASE ~(j = k /\ e = d)
      <4>1. base'[j][e] = base[j][e] /\ last'[j][e] = last[j][e]
          BY <2>5, <2>6, <3>3
      <4> QED BY <3>1, <4>1
    <3> QED BY <3>2, <3>3
  <2> QED BY <1>1, <2>1, <2>5, <2>6, <2>7
<1> QED BY <1>6, <1>7, <1>8, <1>9, <1>10, <1>11, <1>12, <1>13 DEF BufferStep, AppendPayload

LEMMA FinSlot ==
    ASSUME WireInv, SlotInv, ~crashed, protocol = "http", UNCHANGED protocol,
           NEW k \in Keys, NEW d \in Dirs, NEW kind \in Kinds,
           FinShipped(k, d, kind) \/ FinIgnored(k, d)
    PROVE  WireInv' /\ [SlotNext]_slotVars
<1>1. /\ base \in Positions /\ captured \in Positions /\ parsing = NoStream
      /\ closed' = closed \cup {<<k, d>>}
      /\ base' = base /\ captured' = captured /\ parsing' = parsing
    BY DEF WireInv, FinShipped, FinIgnored, pluginVars, bufferVars
<1>2. /\ \A j \in Keys, e \in Dirs : base[j][e] \in Nat /\ captured[j][e] \in Nat
      /\ \A j \in Keys, e \in Dirs : last[j][e] \in Nat
      /\ MaxPosition \in Nat
  <2>1. last \in [Keys -> [Dirs -> 0 .. MaxPosition]] /\ MaxPosition \in Nat
      BY SlotAssumption DEF SlotInv, SlotTypeOK, EventType
  <2>2. \A j \in Keys, e \in Dirs : base[j][e] \in Nat /\ captured[j][e] \in Nat
      BY <1>1 DEF Positions
  <2>3. \A j \in Keys, e \in Dirs : last[j][e] \in Nat
      BY <2>1
  <2> QED BY <2>1, <2>2, <2>3
<1>3. /\ [SlotNext]_slotVars
      /\ \A j \in Keys, e \in Dirs : (j # k \/ e # d) => last'[j][e] = last[j][e]
  <2>1. CASE FinShipped(k, d, kind)
    <3>1. /\ <<k, d>> \notin closed /\ base[k][d] < captured[k][d]
          /\ Handle([key |-> k, dir |-> d, kind |-> kind, n |-> captured[k][d]])
        BY <2>1 DEF FinShipped
    <3>2. last[k][d] <= base[k][d] /\ captured[k][d] <= MaxPosition
        BY <3>1 DEF WireInv
    <3>3. captured[k][d] \in 1 .. MaxPosition /\ captured[k][d] > last[k][d]
        BY <1>2, <3>1, <3>2
    <3> QED BY <3>1, <3>3, HandleArrives
  <2>2. CASE FinIgnored(k, d)
      BY <2>2 DEF FinIgnored, pluginVars, slotVars
  <2> QED BY <2>1, <2>2
<1>4. ASSUME NEW j \in Keys, NEW e \in Dirs
      PROVE  /\ base[j][e] <= captured[j][e] /\ captured[j][e] <= MaxPosition
             /\ parsing # <<j, e>>
             /\ <<j, e>> \notin closed' => last'[j][e] <= base[j][e]
    BY <1>1, <1>3 DEF WireInv
<1> QED BY <1>1, <1>3, <1>4 DEF WireInv

LEMMA PluginStep ==
    ASSUME WireInv, SlotInv, [Next]_allVars
    PROVE  WireInv' /\ [SlotNext]_slotVars
<1>1. CASE UNCHANGED allVars
  <2>1. UNCHANGED <<base, captured, parsing, protocol, closed, last>> /\ UNCHANGED slotVars
      BY <1>1 DEF allVars, pluginVars, bufferVars, slotVars
  <2> QED BY <2>1 DEF WireInv
<1>2. CASE Next
  <2>1. UNCHANGED protocol /\ msg.key \in Keys
      BY <1>2, MessageType DEF Next, SlotInv, SlotTypeOK, HandlerType
  <2>2. CASE protocol = "redis" /\ Redis!Next /\ UNCHANGED closed
    <3>1. closed = {}
        BY <2>2 DEF WireInv
    <3>2. ~crashed /\ BufferStep
        BY <2>2, <3>1, RedisStepKinds, RedisBuffer
    <3> QED BY <2>1, <2>2, <3>2, BufferSlot
  <2>3. CASE protocol = "mysql" /\ Mysql!Next /\ UNCHANGED closed
    <3>1. closed = {}
        BY <2>3 DEF WireInv
    <3>2. ~crashed /\ BufferStep
        BY <2>1, <2>3, <3>1, MysqlStepKinds
    <3> QED BY <2>1, <2>3, <3>2, BufferSlot
  <2>4. CASE protocol = "http" /\ Http!Next
    <3>1. ~crashed /\ HttpKinds
        BY <2>4, HttpStepKinds
    <3>2. CASE BufferStep /\ UNCHANGED closed
        BY <2>1, <3>1, <3>2, BufferSlot
    <3>3. CASE \E k \in Keys, d \in Dirs, kind \in Kinds : FinShipped(k, d, kind)
        BY <2>1, <2>4, <3>1, <3>3, FinSlot
    <3>4. CASE \E k \in Keys, d \in Dirs : FinIgnored(k, d)
        BY <2>1, <2>4, <3>1, <3>4, FinSlot
    <3> QED BY <3>1, <3>2, <3>3, <3>4 DEF HttpKinds
  <2> QED BY <1>2, <2>2, <2>3, <2>4 DEF Next
<1> QED BY <1>1, <1>2

PluginInv == WireInv /\ SlotInv

LEMMA PluginInitInv == Init => SlotInit /\ PluginInv
  BY WireInit, SlotInitInv DEF Init, PluginInit, PluginInv

LEMMA PluginNextInv ==
    ASSUME PluginInv, [Next]_allVars
    PROVE  PluginInv' /\ [SlotNext]_slotVars
<1>1. WireInv' /\ [SlotNext]_slotVars
    BY PluginStep DEF PluginInv
<1> QED BY <1>1, SlotNextInv DEF PluginInv

\* The redis, mysql and http plugins implement the correlator: however packets cut
\* the messages, whatever the parsers read anywhere but at the beginning of a message,
\* and whenever they reject, wait, overflow or panic, what reaches the handlers is one
\* message at a time, each further along in its stream than the one before.
THEOREM PluginsImplementSlots == Spec => SlotSpec
  <1> QED BY PluginInitInv, PluginNextInv, PTL DEF Spec, SlotSpec

\* So what holds of the correlator holds of the plugins.
THEOREM PluginsCorrelate ==
    Spec => /\ []NoLeakedTransaction /\ []PublishedOnce /\ []PairsWithNewestRequest
  BY PluginsImplementSlots, TransactionsNotLeaked, NothingPublishedTwice,
     NewestRequestPublished, PTL

-------------------------------------------------------------------------------
(* Redis: which response meets which request.                              *)

\* The server answers what was sent.  Its buffer has been looked through but for the
\* packet that is being parsed, and a client that waits is at most one request ahead
\* of what was looked through.
Answers(k) ==
    /\ Number(captured[k]["server"]) <= Whole(captured[k]["client"])
    /\ waited[k]["server"] <= captured[k]["server"]
    /\ parsing # <<k, "server">> => waited[k]["server"] = captured[k]["server"]
    /\ k \notin pipelined => Number(captured[k]["client"]) <= Whole(waited[k]["server"]) + 1

\* The newest request is the last one that the client has completely sent.
Requests(k) ==
    k \notin garbled =>
        /\ last[k]["client"] > 0 =>
              /\ newest[k].n = last[k]["client"] /\ base[k]["client"] = last[k]["client"]
              /\ last[k]["client"] % 2 = 0
              /\ parsing # <<k, "client">> => captured[k]["client"] < base[k]["client"] + 2
        /\ transactionsMap[k] # NoTrans => last[k]["client"] > 0
        /\ pc = "request" /\ msg.key = k => last[k]["client"] > 0

\* The response in the handler answers the newest request.
Response ==
    pc \in {"response", "publish"} /\ msg.key \notin pipelined \cup garbled =>
        /\ last[msg.key]["client"] > 0 => Number(newest[msg.key].n) = Number(msg.n)
        /\ pc = "publish" => last[msg.key]["client"] > 0

RedisWire ==
    /\ waited \in Positions
    /\ \A k \in Keys : Answers(k) /\ Requests(k)
    /\ Response
    /\ PairsMatch

\* A response that ends behind what was looked through answers the request that the
\* client waits for, which ends at l.
LEMMA AnswersLast ==
    ASSUME NEW a \in Nat, NEW b \in Nat, NEW w \in Nat, NEW end \in Nat, NEW l \in Nat,
           Number(b) <= Whole(a), Number(a) <= Whole(w) + 1, w < end, end <= b,
           l % 2 = 0, l <= a, a < l + 2
    PROVE  Number(l) = Number(end)
  BY Z3 DEF Number, Whole

LEMMA RedisInit == Init => RedisWire
<1> SUFFICES ASSUME Init PROVE RedisWire
    OBVIOUS
<1>1. /\ captured \in [Keys -> [Dirs -> 0 .. 2]] /\ waited = captured /\ Possible(captured)
      /\ last = [k \in Keys |-> [d \in Dirs |-> 0]] /\ pc = "idle" /\ published = {}
      /\ transactionsMap = [k \in Keys |-> NoTrans]
    BY DEF Init, PluginInit, SlotInit
<1>2. waited \in Positions /\ Response /\ PairsMatch
    BY <1>1 DEF Positions, Response, PairsMatch
<1>3. ASSUME NEW k \in Keys PROVE Answers(k)
  <2>1. /\ captured[k]["client"] \in 0 .. 2 /\ captured[k]["server"] \in 0 .. 2
        /\ waited[k]["server"] = captured[k]["server"]
        /\ Number(captured[k]["server"]) <= Whole(captured[k]["client"])
      BY <1>1 DEF Possible
  <2>2. \A a \in 0 .. 2, b \in 0 .. 2 : Number(a) <= Whole(b) + 1
      BY Z3 DEF Number, Whole
  <2> QED BY <2>1, <2>2 DEF Answers
<1>4. ASSUME NEW k \in Keys PROVE Requests(k)
    BY <1>1 DEF Requests
<1> QED BY <1>2, <1>3, <1>4 DEF RedisWire

\* What is known of the variables.
LEMMA RedisTypes ==
    ASSUME WireInv, SlotInv, RedisWire
    PROVE  /\ \A j \in Keys, e \in Dirs : /\ base[j][e] \in Nat /\ captured[j][e] \in Nat
                                          /\ waited[j][e] \in Nat /\ last[j][e] \in Nat
                                          /\ base[j][e] <= captured[j][e]
           /\ msg.key \in Keys
<1>1. last \in [Keys -> [Dirs -> 0 .. MaxPosition]] /\ MaxPosition \in Nat /\ msg.key \in Keys
    BY SlotAssumption, MessageType DEF SlotInv, SlotTypeOK, EventType, HandlerType
<1>2. \A j \in Keys, e \in Dirs : base[j][e] \in Nat /\ captured[j][e] \in Nat /\ waited[j][e] \in Nat
    BY DEF WireInv, RedisWire, Positions
<1>3. \A j \in Keys, e \in Dirs : last[j][e] \in Nat
    BY <1>1
<1> QED BY <1>1, <1>2, <1>3 DEF WireInv

\* Without a message in the handlers nothing is known of one.
LEMMA HandlersIdle ==
    ASSUME RedisWire, pc' = "idle", UNCHANGED published,
           pipelined \subseteq pipelined', garbled \subseteq garbled'
    PROVE  Response' /\ PairsMatch'
<1>1. Response'
    BY DEF Response
<1>2. PairsMatch'
    BY DEF RedisWire, PairsMatch
<1> QED BY <1>1, <1>2

\* Handlers and timers: a response goes to the publisher with its request.
LEMMA SlotRedis ==
    ASSUME SlotInv, RedisWire, SlotStep, UNCHANGED bufferVars
    PROVE  RedisWire'
<1>1. UNCHANGED <<base, captured, waited, parsing, pipelined, garbled>>
    BY DEF bufferVars
<1>2. UNCHANGED <<last, newest>>
    BY DEF SlotStep, HandlerStep, TimerStep, RequestReuse, RequestOpen, RequestTimer,
        ResponseUnknown, ResponseFound, PublishTransaction, ResponsePanic, ResponseRemove,
        ResponseStop, TimerFires, expireTransaction, PublisherReceive, RuntimeAbort
<1>3. UNCHANGED msg
    BY DEF SlotStep, HandlerStep, TimerStep, RequestReuse, RequestOpen, RequestTimer,
        ResponseUnknown, ResponseFound, PublishTransaction, ResponsePanic, ResponseRemove,
        ResponseStop, TimerFires, expireTransaction, PublisherReceive, RuntimeAbort
<1>4. /\ pc' = "request" => pc = "request"
      /\ pc' = "response" => pc = "response"
      /\ pc' = "publish" => pc = "publish" \/ (pc = "response" /\ transactionsMap[msg.key] # NoTrans)
    BY DEF SlotStep, HandlerStep, TimerStep, RequestReuse, RequestOpen, RequestTimer,
        ResponseUnknown, ResponseFound, PublishTransaction, ResponsePanic, ResponseRemove,
        ResponseStop, TimerFires, expireTransaction, PublisherReceive, RuntimeAbort
<1>5. transactionsMap \in [Keys -> TransIds \cup {NoTrans}] /\ msg.key \in Keys
      /\ key \in [TransIds -> Keys] /\ cur \in TransIds
    BY MessageType DEF SlotInv, SlotTypeOK, MapType, HandlerType
<1>6. \A k \in Keys : transactionsMap'[k] # NoTrans =>
         transactionsMap[k] # NoTrans \/ (pc = "request" /\ msg.key = k)
    BY <1>5 DEF SlotStep, HandlerStep, TimerStep, RequestReuse, RequestOpen, RequestTimer,
        ResponseUnknown, ResponseFound, PublishTransaction, ResponsePanic, ResponseRemove,
        ResponseStop, TimerFires, expireTransaction, PublisherReceive, RuntimeAbort
<1>7. \/ UNCHANGED published
      \/ /\ pc = "publish"
         /\ published' = published \cup
              {[request |-> request[cur], response |-> msg, newest |-> newest[msg.key]]}
    BY DEF SlotStep, HandlerStep, TimerStep, RequestReuse, RequestOpen, RequestTimer,
        ResponseUnknown, ResponseFound, PublishTransaction, ResponsePanic, ResponseRemove,
        ResponseStop, TimerFires, expireTransaction, PublisherReceive, RuntimeAbort
<1>8. \A k \in Keys : Answers(k)'
    BY <1>1 DEF RedisWire, Answers
<1>9. ASSUME NEW k \in Keys PROVE Requests(k)'
  <2>1. Requests(k)
      BY DEF RedisWire
  <2> QED BY <1>1, <1>2, <1>3, <1>4, <1>6, <2>1 DEF Requests
<1>10. Response'
  <2>1. Response /\ Requests(msg.key)
      BY <1>5 DEF RedisWire
  <2> QED BY <1>1, <1>2, <1>3, <1>4, <2>1 DEF Requests, Response
<1>11. PairsMatch'
  <2>1. PairsMatch /\ Response
      BY DEF RedisWire
  <2>2. CASE UNCHANGED published
      BY <1>1, <2>1, <2>2 DEF PairsMatch
  <2>3. CASE /\ pc = "publish"
             /\ published' = published \cup
                  {[request |-> request[cur], response |-> msg, newest |-> newest[msg.key]]}
    <3>1. PICK x : x = [request |-> request[cur], response |-> msg, newest |-> newest[msg.key]]
        OBVIOUS
    <3>2. published' = published \cup {x} /\ x.request = request[cur] /\ x.response = msg
        BY <2>3, <3>1
    <3>3. request[cur] = newest[msg.key]
        BY <2>3 DEF SlotInv, Newest
    <3>4. Number(x.request.n) = Number(x.response.n) \/ x.response.key \in pipelined \cup garbled
        BY <2>1, <2>3, <3>2, <3>3 DEF Response
    <3> QED BY <1>1, <2>1, <3>2, <3>4 DEF PairsMatch
  <2> QED BY <1>7, <2>2, <2>3
<1>12. waited' \in Positions
    BY <1>1 DEF RedisWire
<1> QED BY <1>8, <1>9, <1>10, <1>11, <1>12 DEF RedisWire

\* A packet: the client may run ahead, and is noted if it does.
LEMMA AppendRedis ==
    ASSUME WireInv, SlotInv, RedisWire, NEW k \in Keys, NEW d \in Dirs, NEW len \in 1 .. MaxSegment,
           AppendPayload(k, d, len)
    PROVE  RedisWire'
<1>1. /\ pc = "idle" /\ parsing = NoStream /\ UNCHANGED slotVars
      /\ captured' = [captured EXCEPT ![k][d] = captured[k][d] + len]
      /\ Possible(captured') /\ pipelined' = pipelined \cup Ahead(captured')
    BY DEF AppendPayload, AppendFits, AppendOverflows, Captures, WireInv, Positions
<1>2. UNCHANGED <<pc, msg, published, last, newest, transactionsMap>>
    BY <1>1 DEF slotVars
<1>3. /\ \A j \in Keys, e \in Dirs : captured[j][e] \in Nat /\ waited[j][e] \in Nat
      /\ captured \in Positions /\ base \in Positions /\ waited \in Positions /\ len \in Nat
    BY RedisTypes, BufferAssumption DEF WireInv, RedisWire
<1>4. \A j \in Keys, e \in Dirs :
         captured'[j][e] = IF j = k /\ e = d THEN captured[k][d] + len ELSE captured[j][e]
    BY <1>1, <1>3 DEF Positions
<1>5. ASSUME NEW j \in Keys
      PROVE  /\ waited[j]["server"] = captured[j]["server"]
             /\ Number(captured'[j]["server"]) <= Whole(captured'[j]["client"])
             /\ j \notin pipelined' => Number(captured'[j]["client"]) <= Whole(captured'[j]["server"]) + 1
  <2>1. waited[j]["server"] = captured[j]["server"]
      BY <1>1 DEF RedisWire, Answers
  <2>2. Number(captured'[j]["server"]) <= Whole(captured'[j]["client"])
      BY <1>1 DEF Possible
  <2>3. captured'[j]["client"] \in Nat /\ captured'[j]["server"] \in Nat
      BY <1>3, <1>4
  <2>4. j \notin pipelined' => ~(Number(captured'[j]["client"]) > Whole(captured'[j]["server"]) + 1)
      BY <1>1 DEF Ahead
  <2>5. Number(captured'[j]["client"]) \in Int /\ Whole(captured'[j]["server"]) \in Int
      BY <2>3 DEF Number, Whole
  <2> QED BY <2>1, <2>2, <2>4, <2>5
<1>6. CASE AppendFits(k, d, len)
  <2>1. parsing' = <<k, d>> /\ UNCHANGED <<base, waited, garbled>>
      BY <1>6 DEF AppendFits
  <2>2. ASSUME NEW j \in Keys PROVE Answers(j)'
    <3>1. CASE j = k /\ d = "server"
      <4>1. /\ captured'[j]["client"] = captured[j]["client"]
            /\ captured'[j]["server"] = captured[j]["server"] + len
          BY <1>4, <3>1
      <4>2. waited[j]["server"] <= captured'[j]["server"]
          BY <1>3, <1>5, <4>1
      <4>3. j \notin pipelined => Number(captured[j]["client"]) <= Whole(waited[j]["server"]) + 1
          BY DEF RedisWire, Answers
      <4>4. pipelined \subseteq pipelined' /\ parsing' = <<j, "server">>
          BY <1>1, <2>1, <3>1
      <4> QED BY <1>5, <2>1, <4>1, <4>2, <4>3, <4>4 DEF Answers
    <3>2. CASE ~(j = k /\ d = "server")
      <4>1. captured'[j]["server"] = captured[j]["server"]
          BY <1>4, <3>2
      <4>2. waited'[j]["server"] = captured'[j]["server"] /\ waited'[j]["server"] \in Nat
          BY <1>3, <1>5, <2>1, <4>1
      <4> QED BY <1>5, <4>2 DEF Answers
    <3> QED BY <3>1, <3>2
  <2>3. ASSUME NEW j \in Keys PROVE Requests(j)'
    <3>1. Requests(j)
        BY DEF RedisWire
    <3>2. CASE j = k /\ d = "client"
        BY <1>2, <2>1, <3>1, <3>2 DEF Requests
    <3>3. CASE ~(j = k /\ d = "client")
      <4>1. captured'[j]["client"] = captured[j]["client"] /\ parsing # <<j, "client">>
          BY <1>1, <1>4, <3>3
      <4> QED BY <1>2, <2>1, <3>1, <4>1 DEF Requests
    <3> QED BY <3>2, <3>3
  <2> QED BY <1>1, <1>2, <1>3, <2>1, <2>2, <2>3, HandlersIdle DEF RedisWire
<1>7. CASE AppendOverflows(k, d, len)
  <2>1. /\ parsing' = NoStream
        /\ base' = [base EXCEPT ![k][d] = captured[k][d] + len]
        /\ waited' = [waited EXCEPT ![k][d] = captured[k][d] + len]
        /\ garbled \subseteq garbled' /\ (d = "client" => k \in garbled')
      BY <1>7 DEF AppendOverflows, Dropped, Garbles
  <2>2. /\ waited' \in Positions
        /\ \A j \in Keys, e \in Dirs : j # k \/ e # d => base'[j][e] = base[j][e]
        /\ \A j \in Keys, e \in Dirs :
              waited'[j][e] = IF j = k /\ e = d THEN captured[k][d] + len ELSE waited[j][e]
      BY <1>3, <2>1 DEF Positions
  <2>3. ASSUME NEW j \in Keys PROVE Answers(j)'
    <3>1. waited'[j]["server"] = captured'[j]["server"]
      <4>1. CASE j = k /\ d = "server"
          BY <1>4, <2>2, <4>1
      <4>2. CASE ~(j = k /\ d = "server")
          BY <1>4, <1>5, <2>2, <4>2
      <4> QED BY <4>1, <4>2
    <3>2. waited'[j]["server"] \in Nat
        BY <2>2 DEF Positions
    <3> QED BY <1>5, <3>1, <3>2 DEF Answers
  <2>4. ASSUME NEW j \in Keys PROVE Requests(j)'
    <3>1. Requests(j)
        BY DEF RedisWire
    <3>2. CASE j = k /\ d = "client"
        BY <2>1, <3>2 DEF Requests
    <3>3. CASE ~(j = k /\ d = "client")
      <4>1. /\ captured'[j]["client"] = captured[j]["client"] /\ parsing # <<j, "client">>
            /\ base'[j]["client"] = base[j]["client"]
          BY <1>1, <1>4, <2>2, <3>3
      <4> QED BY <1>2, <2>1, <3>1, <4>1 DEF Requests
    <3> QED BY <3>2, <3>3
  <2> QED BY <1>1, <1>2, <2>1, <2>2, <2>3, <2>4, HandlersIdle DEF RedisWire
<1> QED BY <1>6, <1>7 DEF AppendPayload

\* The parser drops the buffer or waits for more: the packet has been looked through.
LEMMA StopRedis ==
    ASSUME WireInv, SlotInv, RedisWire, NEW k \in Keys, NEW d \in Dirs, pc = "idle", parsing = <<k, d>>,
           RejectStream(k, d) \/ (Incomplete(k, d) /\ WaitForMore(k, d))
    PROVE  RedisWire'
<1>1. /\ UNCHANGED slotVars /\ captured' = captured /\ pipelined' = pipelined
      /\ waited' = [waited EXCEPT ![k][d] = captured[k][d]]
      /\ parsing' = NoStream /\ garbled \subseteq garbled'
    BY DEF RejectStream, Dropped, WaitForMore, Garbles
<1>2. UNCHANGED <<pc, msg, published, last, newest, transactionsMap>>
    BY <1>1 DEF slotVars
<1>3. /\ \A j \in Keys, e \in Dirs : captured[j][e] \in Nat /\ waited[j][e] \in Nat
      /\ captured \in Positions /\ base \in Positions /\ waited \in Positions
    BY RedisTypes DEF WireInv, RedisWire
<1>4. /\ waited' \in Positions
      /\ \A j \in Keys, e \in Dirs :
            waited'[j][e] = IF j = k /\ e = d THEN captured[k][d] ELSE waited[j][e]
    BY <1>1, <1>3 DEF Positions
<1>5. ASSUME NEW j \in Keys PROVE Answers(j)'
  <2>1. Answers(j) /\ captured[j]["server"] \in Nat /\ waited[j]["server"] \in Nat
        /\ captured[j]["client"] \in Nat
      BY <1>3 DEF RedisWire
  <2>2. waited'[j]["server"] = captured[j]["server"]
    <3>1. CASE j = k /\ d = "server"
        BY <1>4, <3>1
    <3>2. CASE ~(j = k /\ d = "server")
        BY <1>4, <2>1, <3>2 DEF Answers
    <3> QED BY <3>1, <3>2
  <2>3. j \notin pipelined => Number(captured[j]["client"]) <= Whole(captured[j]["server"]) + 1
    <3>1. \A w, b \in Nat : w <= b => Whole(w) <= Whole(b)
        BY Z3 DEF Whole
    <3>2. /\ Whole(waited[j]["server"]) \in Int /\ Whole(captured[j]["server"]) \in Int
          /\ Number(captured[j]["client"]) \in Int
          /\ Whole(waited[j]["server"]) <= Whole(captured[j]["server"])
      <4>1. Whole(waited[j]["server"]) <= Whole(captured[j]["server"])
          BY <2>1, <3>1 DEF Answers
      <4> QED BY <2>1, <4>1 DEF Number, Whole
    <3>3. j \notin pipelined => Number(captured[j]["client"]) <= Whole(waited[j]["server"]) + 1
        BY <2>1 DEF Answers
    <3> QED BY <3>2, <3>3
  <2> QED BY <1>1, <2>1, <2>2, <2>3 DEF Answers
<1>6. ASSUME NEW j \in Keys PROVE Requests(j)'
  <2>1. Requests(j)
      BY DEF RedisWire
  <2>2. CASE RejectStream(k, d)
    <3>1. base' = [base EXCEPT ![k][d] = captured[k][d]] /\ (d = "client" => k \in garbled')
        BY <2>2 DEF RejectStream, Dropped, Garbles
    <3>2. CASE j = k /\ d = "client"
        BY <3>1, <3>2 DEF Requests
    <3>3. CASE ~(j = k /\ d = "client")
      <4>1. base'[j]["client"] = base[j]["client"] /\ parsing # <<j, "client">>
          BY <1>3, <3>1, <3>3 DEF Positions
      <4> QED BY <1>1, <1>2, <2>1, <4>1 DEF Requests
    <3> QED BY <3>2, <3>3
  <2>3. CASE Incomplete(k, d) /\ WaitForMore(k, d)
    <3>1. base' = base /\ garbled' = IF d = "client" /\ Rejected(k, d) THEN garbled \cup {k} ELSE garbled
        BY <2>3 DEF WaitForMore, Garbles
    <3>2. CASE j = k /\ d = "client"
      <4>1. CASE Rejected(k, d)
          BY <3>1, <3>2, <4>1 DEF Requests
      <4>2. CASE ~Rejected(k, d)
        <5>1. captured[j]["client"] < base[j]["client"] + 2
          <6>1. base[j]["client"] \in Nat /\ captured[j]["client"] \in Nat
              BY RedisTypes
          <6> QED BY <2>3, <3>2, <4>2, <6>1 DEF Rejected, Incomplete
        <5> QED BY <1>1, <1>2, <2>1, <3>1, <5>1 DEF Requests
      <4> QED BY <4>1, <4>2
    <3>3. CASE ~(j = k /\ d = "client")
      <4>1. parsing # <<j, "client">>
          BY <3>3
      <4> QED BY <1>1, <1>2, <2>1, <3>1, <4>1 DEF Requests
    <3> QED BY <3>2, <3>3
  <2> QED BY <2>2, <2>3
<1>7. Response' /\ PairsMatch'
  <2>1. pc' = "idle" /\ UNCHANGED published /\ pipelined \subseteq pipelined'
      BY <1>1, <1>2
  <2> QED BY <1>1, <2>1, HandlersIdle
<1> QED BY <1>4, <1>5, <1>6, <1>7 DEF RedisWire

\* A message reaches the handlers: a request is the newest of its stream, a response
\* answers it.
LEMMA ShipRedis ==
    ASSUME WireInv, SlotInv, RedisWire, NEW k \in Keys, NEW d \in Dirs, NEW kind \in Kinds,
           NEW end \in 1 .. MaxPosition,
           parsing = <<k, d>>, Complete(k, d, end, kind), end > waited[k][d],
           Ship(k, d, end, kind, ts[k][d]), UNCHANGED <<parsing, captured, pipelined>>
    PROVE  RedisWire'
<1> DEFINE m == [key |-> k, dir |-> d, kind |-> kind, n |-> end]
<1>1. /\ pc' = kind /\ msg' = m /\ UNCHANGED <<transactionsMap, published>>
      /\ last' = [last EXCEPT ![k][d] = end]
      /\ newest' = IF kind = "request" THEN [newest EXCEPT ![k] = m] ELSE newest
      /\ base' = [base EXCEPT ![k][d] = end] /\ waited' = [waited EXCEPT ![k][d] = end]
      /\ garbled' = IF Misread(d, Legible(k, d), kind) THEN garbled \cup {k} ELSE garbled
    BY DEF Ship, Handle, Cut, Garbles
<1>2. /\ \A j \in Keys, e \in Dirs : /\ captured[j][e] \in Nat /\ waited[j][e] \in Nat
                                     /\ base[j][e] \in Nat /\ last[j][e] \in Nat
                                     /\ base[j][e] <= captured[j][e]
      /\ captured \in Positions /\ base \in Positions /\ waited \in Positions
      /\ last \in [Keys -> [Dirs -> 0 .. MaxPosition]] /\ newest \in [Keys -> Messages]
    BY RedisTypes DEF WireInv, RedisWire, SlotInv, SlotTypeOK, EventType
<1>3. /\ end \in Nat /\ end > 0 /\ end <= captured[k][d] /\ end > waited[k][d]
    BY <1>2 DEF Complete
<1>4. /\ waited' \in Positions
      /\ \A j \in Keys, e \in Dirs : waited'[j][e] = IF j = k /\ e = d THEN end ELSE waited[j][e]
    BY <1>1, <1>2, <1>3 DEF Positions
<1>5. \A j \in Keys, e \in Dirs : base'[j][e] = IF j = k /\ e = d THEN end ELSE base[j][e]
    BY <1>1, <1>2 DEF Positions
<1>6. \A j \in Keys, e \in Dirs : last'[j][e] = IF j = k /\ e = d THEN end ELSE last[j][e]
    BY <1>1, <1>2
<1>7. \A j \in Keys : newest'[j] = IF j = k /\ kind = "request" THEN m ELSE newest[j]
    BY <1>1, <1>2
<1>8. d = "client" /\ k \notin garbled' => Legible(k, d) /\ kind = "request" /\ end = base[k][d] + 2
    BY <1>1 DEF Misread, Complete, WireKind
<1>9. d = "server" /\ k \notin garbled' => kind = "response"
    BY <1>1 DEF Misread
<1>10. d = "client" \/ d = "server"
    OBVIOUS
<1>11. garbled \subseteq garbled'
    BY <1>1
<1>12. ASSUME NEW j \in Keys PROVE Answers(j)'
  <2>1. Answers(j) /\ captured[j]["client"] \in Nat /\ waited[j]["server"] \in Nat
      BY <1>2 DEF RedisWire
  <2>2. CASE j = k /\ d = "server"
    <3>1. waited'[j]["server"] = end /\ waited[j]["server"] < end /\ end <= captured[j]["server"]
        BY <1>3, <1>4, <2>2
    <3>2. \A v, w \in Nat : v < w => Whole(v) <= Whole(w) /\ Whole(v) \in Int /\ Whole(w) \in Int
        BY Z3 DEF Whole
    <3>3. /\ Whole(waited[j]["server"]) <= Whole(end) /\ Whole(waited[j]["server"]) \in Int
          /\ Whole(end) \in Int
        BY <1>3, <2>1, <3>1, <3>2
    <3>4. Number(captured[j]["client"]) \in Int
        BY <2>1 DEF Number
    <3>5. j \notin pipelined => Number(captured[j]["client"]) <= Whole(end) + 1
        BY <2>1, <3>3, <3>4 DEF Answers
    <3>6. parsing' = <<j, "server">>
        BY <2>2
    <3> QED BY <2>1, <3>1, <3>5, <3>6 DEF Answers
  <2>3. CASE ~(j = k /\ d = "server")
    <3>1. waited'[j]["server"] = waited[j]["server"]
        BY <1>4, <2>3
    <3> QED BY <2>1, <3>1 DEF Answers
  <2> QED BY <2>2, <2>3
<1>13. ASSUME NEW j \in Keys, j \notin garbled' PROVE Requests(j)'
  <2>1. Requests(j) /\ j \notin garbled
      BY <1>11, <1>13 DEF RedisWire
  <2>2. CASE j = k /\ d = "client"
    <3>1. base[k][d] % 2 = 0 /\ kind = "request" /\ end = base[k][d] + 2
        BY <1>8, <1>13, <2>2 DEF Legible
    <3>2. end % 2 = 0
        BY <1>2, <3>1, Z3
    <3>3. newest'[j].n = end /\ last'[j]["client"] = end /\ base'[j]["client"] = end
        BY <1>5, <1>6, <1>7, <2>2, <3>1
    <3>4. parsing' = <<j, "client">>
        BY <2>2
    <3> QED BY <1>3, <3>2, <3>3, <3>4 DEF Requests
  <2>3. CASE j # k \/ d = "server"
    <3>1. base'[j]["client"] = base[j]["client"] /\ last'[j]["client"] = last[j]["client"]
        BY <1>5, <1>6, <2>3
    <3>2. newest'[j] = newest[j] /\ ~(pc' = "request" /\ msg'.key = j)
        BY <1>1, <1>7, <1>9, <1>13, <2>3
    <3> QED BY <1>1, <2>1, <3>1, <3>2 DEF Requests
  <2> QED BY <1>10, <2>2, <2>3
<1>14. Response'
  <2> SUFFICES ASSUME kind = "response", k \notin pipelined, k \notin garbled'
               PROVE  last'[k]["client"] > 0 => Number(newest'[k].n) = Number(end)
      BY <1>1 DEF Response
  <2>1. d = "server"
      BY <1>8, <1>10
  <2>2. last'[k]["client"] = last[k]["client"] /\ newest'[k] = newest[k]
      BY <1>6, <1>7, <2>1
  <2>3. SUFFICES ASSUME last[k]["client"] > 0 PROVE Number(newest[k].n) = Number(end)
      BY <2>2
  <2> DEFINE l == last[k]["client"]
  <2>4. Answers(k) /\ Requests(k) /\ k \notin garbled
      BY <1>11 DEF RedisWire
  <2>5. /\ newest[k].n = l /\ base[k]["client"] = l /\ l % 2 = 0
        /\ captured[k]["client"] < base[k]["client"] + 2
    <3>1. parsing # <<k, "client">>
        BY <2>1
    <3> QED BY <2>3, <2>4, <3>1 DEF Requests
  <2>6. /\ Number(captured[k]["server"]) <= Whole(captured[k]["client"])
        /\ Number(captured[k]["client"]) <= Whole(waited[k]["server"]) + 1
      BY <2>4 DEF Answers
  <2>7. /\ captured[k]["client"] \in Nat /\ captured[k]["server"] \in Nat
        /\ waited[k]["server"] \in Nat /\ l \in Nat /\ l <= captured[k]["client"]
      BY <1>2, <2>5
  <2>8. waited[k]["server"] < end /\ end <= captured[k]["server"]
      BY <1>3, <2>1, <2>7
  <2>9. Number(l) = Number(end)
    <3>1. l <= captured[k]["client"] /\ captured[k]["client"] < l + 2 /\ l % 2 = 0
        BY <2>5, <2>7
    <3>2. PICK a \in Nat, b \in Nat, w \in Nat, c \in Nat :
             /\ a = captured[k]["client"] /\ b = captured[k]["server"]
             /\ w = waited[k]["server"] /\ c = l
        BY <2>7
    <3>3. /\ Number(b) <= Whole(a) /\ Number(a) <= Whole(w) + 1 /\ w < end /\ end <= b
          /\ c % 2 = 0 /\ c <= a /\ a < c + 2
        BY <2>6, <2>8, <3>1, <3>2
    <3>4. Number(c) = Number(end)
        BY ONLY <1>3, <3>3, AnswersLast
    <3> QED BY <3>2, <3>4
  <2> QED BY <2>5, <2>9
<1>15. PairsMatch'
    BY <1>1, <1>11 DEF RedisWire, PairsMatch
<1>16. \A j \in Keys : Requests(j)'
    BY <1>13 DEF Requests
<1> QED BY <1>4, <1>12, <1>14, <1>15, <1>16 DEF RedisWire

LEMMA RedisStep ==
    ASSUME PluginInv, [Next]_allVars, protocol = "redis" => RedisWire
    PROVE  protocol' = "redis" => RedisWire'
<1> SUFFICES ASSUME protocol' = "redis" PROVE RedisWire'
    OBVIOUS
<1>1. protocol = "redis" /\ RedisWire /\ WireInv /\ SlotInv
    BY DEF Next, allVars, PluginInv
<1>2. CASE UNCHANGED allVars
  <2>1. /\ UNCHANGED <<base, captured, waited, parsing, pipelined, garbled>>
        /\ UNCHANGED <<transactionsMap, pc, msg, last, newest, published>>
      BY <1>2 DEF allVars, pluginVars, bufferVars, slotVars
  <2>2. \A k \in Keys : Answers(k)' /\ Requests(k)'
      BY <1>1, <2>1 DEF RedisWire, Answers, Requests
  <2>3. Response' /\ PairsMatch' /\ waited' \in Positions
      BY <1>1, <2>1 DEF RedisWire, Response, PairsMatch
  <2> QED BY <2>2, <2>3 DEF RedisWire
<1>3. CASE Next
  <2>1. RedisKinds
      BY <1>1, <1>3, RedisStepKinds DEF Next
  <2>2. CASE \E k \in Keys, d \in Dirs, len \in 1 .. MaxSegment : AppendPayload(k, d, len)
      BY <1>1, <2>2, AppendRedis
  <2>3. CASE \E k \in Keys, d \in Dirs, end \in 1 .. MaxPosition, kind \in Kinds :
                /\ parsing = <<k, d>> /\ Complete(k, d, end, kind) /\ end > waited[k][d]
                /\ Ship(k, d, end, kind, ts[k][d])
                /\ UNCHANGED <<parsing, captured, pipelined>>
      BY <1>1, <2>3, ShipRedis
  <2>4. CASE /\ pc = "idle"
             /\ \E k \in Keys, d \in Dirs :
                   /\ parsing = <<k, d>>
                   /\ RejectStream(k, d) \/ (Incomplete(k, d) /\ WaitForMore(k, d))
      BY <1>1, <2>4, StopRedis
  <2>5. CASE SlotStep /\ UNCHANGED bufferVars
      BY <1>1, <2>5, SlotRedis
  <2> QED BY <2>1, <2>2, <2>3, <2>4, <2>5 DEF RedisKinds
<1> QED BY <1>2, <1>3

RedisInv == PluginInv /\ (protocol = "redis" => RedisWire)

\* Redis publishes a response with the request it answers as long as the client waits
\* and its requests are read as they were sent, whatever becomes of the responses:
\* however they are cut, misread, taken for several or dropped, wherever the capture
\* begins and whenever transactions expire.
THEOREM RedisPairs == Spec => []RedisPairsMatch
<1>1. Init => RedisInv
    BY PluginInitInv, RedisInit DEF RedisInv
<1>2. RedisInv /\ [Next]_allVars => RedisInv'
    BY PluginNextInv, RedisStep DEF RedisInv
<1>3. RedisInv => RedisPairsMatch
    BY DEF RedisInv, RedisWire, RedisPairsMatch
<1> QED BY <1>1, <1>2, <1>3, PTL DEF Spec
===============================================================================
