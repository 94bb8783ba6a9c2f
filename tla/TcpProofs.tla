------------------------------- MODULE TcpProofs --------------------------------
(* Theorems about the stream table, for every set of endpoints and packets, *)
(* every port map, every sequence space and every bound.                    *)
EXTENDS Tcp, TLAPS

USE DEF None, NoPosition, StreamIds, TcpDirectionReverse, TcpDirectionOriginal, Directions

\* Reversing a tuple gives a tuple, and reversing twice changes nothing.
LEMMA RevTuple ==
    ASSUME NEW t \in Tuples
    PROVE  Rev(t) \in Tuples /\ Rev(Rev(t)) = t
  BY DEF Tuples, Rev

\* FollowTcp looks up a stream or None.
LEMMA LookupType ==
    ASSUME RegistryType, NEW t \in Tuples
    PROVE  Lookup(t) \in StreamIds \cup {None} /\ DirectionOf(t) \in Directions
  BY RevTuple DEF RegistryType, Lookup, DirectionOf

\* The end of a segment is a sequence number.
LEMMA EndSeqType ==
    ASSUME NEW p \in Packets
    PROVE  /\ p \in [tuple : Tuples, pos : Nat, len : Nat, fin : BOOLEAN]
           /\ EndSeq(p) \in 0 .. SeqSpace - 1
  <1>1. p \in [tuple : Tuples, pos : Nat, len : Nat, fin : BOOLEAN]
    BY PacketsAssumption
  <1>2. ISN[p.tuple] \in Nat
    BY <1>1, SeqAssumption
  <1>3. StartSeq(p) \in Nat
    BY <1>1, <1>2, SeqAssumption DEF StartSeq
  <1>4. EndSeq(p) \in 0 .. SeqSpace - 1
    BY <1>1, <1>3, SeqAssumption DEF EndSeq
  <1> QED BY <1>1, <1>4

\* The ghost positions keep their type when a packet is accepted.
LEMMA AcceptedType ==
    ASSUME HistoryType, NEW s \in StreamIds, NEW d \in Directions,
           NEW p \in Packets, Accepted(s, d, p)
    PROVE  HistoryType'
  <1>1. p.pos + p.len \in Int
    BY EndSeqType
  <1> DEFINE end == p.pos + p.len
             why == IF lastSeq[s][d] = 0 THEN "wrapped"
                    ELSE IF upTo[s][d] > parsedTo[s][d] THEN "fin" ELSE "other"
  <1>2. /\ upTo' = [upTo EXCEPT ![s][d] = end]
        /\ parsedTo' = parsedTo \/ parsedTo' = [parsedTo EXCEPT ![s][d] = end]
        /\ \/ silentHole' = silentHole
           \/ silentHole' = [silentHole EXCEPT ![s][d] = why]
    BY DEF Accepted
  <1>3. why \in {"none", "wrapped", "fin", "other"}
    OBVIOUS
  <1> HIDE DEF end, why
  <1>4. upTo' \in [StreamIds -> [Directions -> Int]]
    BY <1>1, <1>2 DEF HistoryType, end
  <1>5. parsedTo' \in [StreamIds -> [Directions -> Int]]
    BY <1>1, <1>2 DEF HistoryType, end
  <1>6. silentHole' \in [StreamIds -> [Directions -> {"none", "wrapped", "fin", "other"}]]
    BY <1>2, <1>3 DEF HistoryType
  <1> QED BY <1>4, <1>5, <1>6 DEF HistoryType

-------------------------------------------------------------------------------
\* What holds between two packets and across goroutines, beside the types:
\* streams above id are untouched, the sniffer works on an allocated stream,
\* and the map leads to streams that carry the tuple they are filed under.
Allocation ==
    /\ \A s \in StreamIds : s <= id => tuple[s] \in Tuples
    /\ \A s \in StreamIds :
          s > id => s \notin timer /\ expiring[s] = 0 /\ nulling[s] = 0
    /\ pc \notin {"idle", "follow"} => cur <= id
    /\ pc = "follow" => id < MaxStreams

Filing ==
    \A t \in Tuples :
        tcpStreamsMap[t] # None => /\ tcpStreamsMap[t] <= id
                                  /\ tuple[tcpStreamsMap[t]] = t

IInv ==
    /\ TypeOK
    /\ Allocation
    /\ Filing
    /\ OneStreamPerConnection
    /\ NoLeakedStream
    /\ ClearedIsUnregistered

\* The initial state satisfies the inductive invariant.
LEMMA InitIInv == Init => IInv
  <1> SUFFICES ASSUME Init PROVE IInv
    OBVIOUS
  <1> USE BoundsAssumption
  <1>1. pkt \in Packets
    BY PacketsAssumption DEF Init
  <1>2. TypeOK
    <2>1. RegistryType
      BY DEF Init, RegistryType
    <2>5. SnifferType
      <3>1. pc = "idle" /\ cur = 1 /\ dir = 1 /\ received = 0
        BY DEF Init
      <3>2. aborted \in BOOLEAN
        BY DEF Init
      <3>3. cur \in StreamIds /\ dir \in Directions /\ received \in 0 .. MaxPackets
        BY <3>1
      <3> QED BY <1>1, <3>1, <3>2, <3>3 DEF SnifferType
    <2>4. TimerType /\ CounterType
      BY DEF Init, TimerType, CounterType
    <2>2. LastSeqType
      BY SeqAssumption DEF Init, LastSeqType
    <2>3. HistoryType
      BY DEF Init, HistoryType
    <2> QED BY <2>1, <2>2, <2>3, <2>4, <2>5 DEF TypeOK
  <1>3. Allocation
    BY DEF Init, Allocation
  <1>4. Filing /\ OneStreamPerConnection
    BY DEF Init, Filing, OneStreamPerConnection
  <1>5. NoLeakedStream /\ ClearedIsUnregistered
    BY DEF Init, NoLeakedStream, ClearedIsUnregistered, Registered
  <1> QED BY <1>2, <1>3, <1>4, <1>5 DEF IInv

\* Each action keeps the types.
LEMMA NextTypeOK == IInv /\ [Next]_vars => TypeOK'
  <1> SUFFICES ASSUME IInv, [Next]_vars PROVE TypeOK'
    OBVIOUS
  <1> USE BoundsAssumption DEF streamVars, timerVars, snifferVars, historyVars
  <1>1. /\ RegistryType /\ LastSeqType /\ TimerType /\ CounterType
        /\ SnifferType /\ HistoryType
    BY DEF IInv, TypeOK
  <1>2. pkt \in Packets /\ pkt.tuple \in Tuples /\ EndSeq(pkt) \in 0 .. SeqSpace - 1
    BY <1>1, EndSeqType DEF SnifferType
  <1>3. CASE \E p \in Packets : DecodePacketData(p)
    <2>1. PICK p \in Packets : DecodePacketData(p)
      BY <1>3
    <2>2. SnifferType'
      BY <1>1, <2>1 DEF SnifferType, DecodePacketData
    <2>3. RegistryType' /\ LastSeqType' /\ TimerType' /\ CounterType' /\ HistoryType'
      BY <1>1, <2>1 DEF RegistryType, LastSeqType, TimerType, CounterType, HistoryType, DecodePacketData
    <2> QED BY <2>2, <2>3 DEF TypeOK
  <1>4. CASE FollowTcpIgnore
    <2>1. SnifferType'
      BY <1>1, <1>4 DEF SnifferType, FollowTcpIgnore
    <2>2. RegistryType' /\ LastSeqType' /\ TimerType' /\ CounterType' /\ HistoryType'
      BY <1>1, <1>4 DEF RegistryType, LastSeqType, TimerType, CounterType, HistoryType, FollowTcpIgnore
    <2> QED BY <2>1, <2>2 DEF TypeOK
  <1>5. CASE FollowTcpCreate
    <2>1. id + 1 \in StreamIds
      BY <1>1, <1>5 DEF RegistryType, IInv, Allocation, FollowTcpCreate
    <2>2. RegistryType'
      BY <1>1, <1>2, <1>5, <2>1 DEF RegistryType, FollowTcpCreate
    <2>3. LastSeqType'
      BY <1>1, <1>2, <1>5, <2>1 DEF LastSeqType, FollowTcpCreate
    <2>4. SnifferType'
      BY <1>1, <1>5, <2>1 DEF SnifferType, FollowTcpCreate
    <2>5. HistoryType'
      BY <1>1, <1>2, <1>5, <2>1, AcceptedType DEF FollowTcpCreate
    <2>6. TimerType' /\ CounterType'
      BY <1>1, <1>5 DEF TimerType, CounterType, FollowTcpCreate
    <2> QED BY <2>2, <2>3, <2>4, <2>5, <2>6 DEF TypeOK
  <1>6. CASE FollowTcpGap
    <2>1. Lookup(pkt.tuple) \in StreamIds \cup {None} /\ DirectionOf(pkt.tuple) \in Directions
      BY <1>1, <1>2, LookupType
    <2>2. SnifferType'
      BY <1>1, <1>6, <2>1 DEF SnifferType, FollowTcpGap
    <2>3. RegistryType' /\ LastSeqType' /\ TimerType' /\ CounterType' /\ HistoryType'
      BY <1>1, <1>6 DEF RegistryType, LastSeqType, TimerType, CounterType, HistoryType, FollowTcpGap
    <2> QED BY <2>2, <2>3 DEF TypeOK
  <1>7. CASE FollowTcpAccept
    <2> DEFINE s == Lookup(pkt.tuple)
               d == DirectionOf(pkt.tuple)
    <2>1. s \in StreamIds /\ d \in Directions
      BY <1>1, <1>2, <1>7, LookupType DEF FollowTcpAccept
    <2>2. /\ Accepted(s, d, pkt)
          /\ lastSeq' = [lastSeq EXCEPT ![s][d] = EndSeq(pkt)]
          /\ cur' = s /\ dir' = d /\ pc' = "timer"
          /\ UNCHANGED <<tcpStreamsMap, id, tuple, timerVars, data, nulling, pkt,
                         received, aborted>>
      BY <1>7 DEF FollowTcpAccept
    <2> HIDE DEF s, d
    <2>3. LastSeqType'
      BY <1>1, <1>2, <2>1, <2>2 DEF LastSeqType
    <2>4. SnifferType'
      BY <1>1, <2>1, <2>2 DEF SnifferType
    <2>5. HistoryType'
      BY <1>1, <1>2, <2>1, <2>2, AcceptedType
    <2>6. RegistryType' /\ TimerType' /\ CounterType'
      BY <1>1, <2>2 DEF RegistryType, TimerType, CounterType
    <2> QED BY <2>3, <2>4, <2>5, <2>6 DEF TypeOK
  <1>8. CASE AddPacketTimer
    <2>1. TimerType' /\ SnifferType'
      BY <1>1, <1>8 DEF TimerType, SnifferType, AddPacketTimer
    <2>2. CounterType'
      BY <1>1, <1>8 DEF CounterType, SnifferType, AddPacketTimer
    <2>3. RegistryType' /\ LastSeqType' /\ HistoryType'
      BY <1>1, <1>8 DEF RegistryType, LastSeqType, HistoryType, AddPacketTimer
    <2> QED BY <2>1, <2>2, <2>3 DEF TypeOK
  <1>9. CASE AddPacketParse
    <2>1. TimerType' /\ SnifferType'
      BY <1>1, <1>9 DEF TimerType, SnifferType, AddPacketParse
    <2>2. RegistryType' /\ LastSeqType' /\ CounterType' /\ HistoryType'
      BY <1>1, <1>9 DEF RegistryType, LastSeqType, CounterType, HistoryType, AddPacketParse
    <2> QED BY <2>1, <2>2 DEF TypeOK
  <1>10. CASE AddPacketFin
    <2>1. SnifferType'
      BY <1>1, <1>10 DEF SnifferType, AddPacketFin
    <2>2. RegistryType' /\ LastSeqType' /\ TimerType' /\ CounterType' /\ HistoryType'
      BY <1>1, <1>10 DEF RegistryType, LastSeqType, TimerType, CounterType, HistoryType, AddPacketFin
    <2> QED BY <2>1, <2>2 DEF TypeOK
  <1>11. CASE GapInStream
    <2>1. SnifferType'
      BY <1>1, <1>11 DEF SnifferType, GapInStream
    <2>2. RegistryType' /\ LastSeqType' /\ TimerType' /\ CounterType' /\ HistoryType'
      BY <1>1, <1>11 DEF RegistryType, LastSeqType, TimerType, CounterType, HistoryType, GapInStream
    <2> QED BY <2>1, <2>2 DEF TypeOK
  <1>12. CASE DropDelete
    <2>1. RegistryType'
      BY <1>1, <1>12 DEF RegistryType, DropDelete, Deregister
    <2>2. SnifferType'
      BY <1>1, <1>12 DEF SnifferType, DropDelete
    <2>3. LastSeqType' /\ TimerType' /\ CounterType' /\ HistoryType'
      BY <1>1, <1>12 DEF LastSeqType, TimerType, CounterType, HistoryType, DropDelete
    <2> QED BY <2>1, <2>2, <2>3 DEF TypeOK
  <1>13. CASE DropNullify
    <2>1. TimerType'
      BY <1>1, <1>13 DEF TimerType, DropNullify
    <2>2. SnifferType'
      BY <1>1, <1>13 DEF SnifferType, DropNullify
    <2>3. RegistryType' /\ LastSeqType' /\ CounterType' /\ HistoryType'
      BY <1>1, <1>13 DEF RegistryType, LastSeqType, CounterType, HistoryType, DropNullify
    <2> QED BY <2>1, <2>2, <2>3 DEF TypeOK
  <1>14. ASSUME NEW s \in StreamIds, TimerFires(s) PROVE TypeOK'
    <2>1. TimerType'
      BY <1>1, <1>14 DEF TimerType, TimerFires
    <2>2. CounterType'
      BY <1>1, <1>14 DEF CounterType, TimerFires
    <2>3. RegistryType' /\ LastSeqType' /\ SnifferType' /\ HistoryType'
      BY <1>1, <1>14 DEF RegistryType, LastSeqType, SnifferType, HistoryType, TimerFires
    <2> QED BY <2>1, <2>2, <2>3 DEF TypeOK
  <1>15. ASSUME NEW s \in StreamIds, ExpireDelete(s) PROVE TypeOK'
    <2>1. RegistryType'
      BY <1>1, <1>15 DEF RegistryType, ExpireDelete, Deregister
    <2>2. CounterType'
      <3>1. expiring' \in [StreamIds -> Nat]
        BY <1>1, <1>15, SMTT(40) DEF CounterType, ExpireDelete
      <3>2. nulling' \in [StreamIds -> Nat]
        BY <1>1, <1>15, SMTT(40) DEF CounterType, ExpireDelete
      <3> QED BY <1>1, <1>15, <3>1, <3>2 DEF CounterType, ExpireDelete
    <2>3. LastSeqType' /\ TimerType' /\ SnifferType' /\ HistoryType'
      BY <1>1, <1>15 DEF LastSeqType, TimerType, SnifferType, HistoryType, ExpireDelete
    <2> QED BY <2>1, <2>2, <2>3 DEF TypeOK
  <1>16. ASSUME NEW s \in StreamIds, ExpireNullify(s) PROVE TypeOK'
    <2>1. TimerType'
      BY <1>1, <1>16 DEF TimerType, ExpireNullify
    <2>2. CounterType'
      BY <1>1, <1>16 DEF CounterType, ExpireNullify
    <2>3. RegistryType' /\ LastSeqType' /\ SnifferType' /\ HistoryType'
      BY <1>1, <1>16 DEF RegistryType, LastSeqType, SnifferType, HistoryType, ExpireNullify
    <2> QED BY <2>1, <2>2, <2>3 DEF TypeOK
  <1>17. CASE Tick
    <2>1. CounterType'
      BY <1>1, <1>17, SMTT(40) DEF CounterType, RegistryType, Tick
    <2>2. RegistryType' /\ LastSeqType' /\ TimerType' /\ SnifferType' /\ HistoryType'
      BY <1>1, <1>17 DEF RegistryType, LastSeqType, TimerType, SnifferType, HistoryType, Tick
    <2> QED BY <2>1, <2>2 DEF TypeOK
  <1>18. CASE RuntimeAbort
    <2>1. SnifferType'
      BY <1>1, <1>18 DEF SnifferType, RuntimeAbort
    <2>2. RegistryType' /\ LastSeqType' /\ TimerType' /\ CounterType' /\ HistoryType'
      BY <1>1, <1>18 DEF RegistryType, LastSeqType, TimerType, CounterType, HistoryType, RuntimeAbort
    <2> QED BY <2>1, <2>2 DEF TypeOK
  <1>19. CASE UNCHANGED vars
    <2>1. RegistryType' /\ LastSeqType' /\ TimerType' /\ CounterType'
      BY <1>1, <1>19 DEF RegistryType, LastSeqType, TimerType, CounterType, vars
    <2>2. SnifferType' /\ HistoryType'
      BY <1>1, <1>19 DEF SnifferType, HistoryType, vars
    <2> QED BY <2>1, <2>2 DEF TypeOK
  <1> QED BY <1>3, <1>4, <1>5, <1>6, <1>7, <1>8, <1>9, <1>10, <1>11, <1>12, <1>13,
             <1>14, <1>15, <1>16, <1>17, <1>18, <1>19
          DEF Next, SnifferStep, ExpireStep

\* Steps that leave the map and the tuples alone.
LEMMA MapUntouched ==
    ASSUME IInv, UNCHANGED <<tcpStreamsMap, id, tuple>>
    PROVE  /\ Filing' /\ OneStreamPerConnection'
           /\ \A s \in StreamIds : Registered(s)' <=> Registered(s)
  BY DEF IInv, Filing, OneStreamPerConnection, Registered

\* Expire of an allocated stream takes that stream out of the map, since a
\* stream is filed under its own tuple only, and brings no stream in.
LEMMA DeregisterStream ==
    ASSUME IInv, NEW s \in StreamIds, s <= id, Deregister(s), UNCHANGED <<id, tuple>>
    PROVE  /\ Filing' /\ OneStreamPerConnection'
           /\ ~Registered(s)'
           /\ \A r \in StreamIds : Registered(r)' => Registered(r)
  <1>1. tuple[s] \in Tuples /\ tcpStreamsMap \in [Tuples -> StreamIds \cup {None}]
    BY DEF IInv, Allocation, TypeOK, RegistryType
  <1>2. \A t \in Tuples : tcpStreamsMap'[t] = IF t = tuple[s] THEN None ELSE tcpStreamsMap[t]
    BY <1>1 DEF Deregister
  <1>3. Filing' /\ OneStreamPerConnection'
    <2>1. Filing'
      BY <1>2 DEF IInv, Filing
    <2>2. OneStreamPerConnection'
      BY <1>2, RevTuple DEF IInv, OneStreamPerConnection
    <2> QED BY <2>1, <2>2
  <1>4. ~Registered(s)'
    BY <1>2 DEF IInv, Filing, Registered
  <1>5. \A r \in StreamIds : Registered(r)' => Registered(r)
    BY <1>2 DEF Registered
  <1> QED BY <1>3, <1>4, <1>5

\* Each action keeps the rest of the inductive invariant.
LEMMA NextIInv == IInv /\ [Next]_vars => IInv'
  <1> SUFFICES ASSUME IInv, [Next]_vars PROVE IInv'
    OBVIOUS
  <1> USE BoundsAssumption DEF streamVars, timerVars, snifferVars, historyVars
  <1> DEFINE Rest == /\ Allocation /\ Filing /\ OneStreamPerConnection
                     /\ NoLeakedStream /\ ClearedIsUnregistered
  <1> SUFFICES Rest'
    BY NextTypeOK DEF IInv
  <1>1. pkt \in Packets
    BY DEF IInv, TypeOK, SnifferType
  <1>2. /\ Allocation /\ NoLeakedStream /\ ClearedIsUnregistered
        /\ id \in 0 .. MaxStreams /\ cur \in StreamIds /\ pkt.tuple \in Tuples
        /\ expiring \in [StreamIds -> Nat] /\ nulling \in [StreamIds -> Nat]
    <2>1. pkt.tuple \in Tuples
      BY <1>1, EndSeqType
    <2> QED BY <2>1 DEF IInv, TypeOK, RegistryType, SnifferType, CounterType
  <1>3. ASSUME NEW p \in Packets, DecodePacketData(p) PROVE Rest'
    <2>1. /\ Filing' /\ OneStreamPerConnection'
          /\ \A s \in StreamIds : Registered(s)' <=> Registered(s)
      BY <1>3, MapUntouched DEF DecodePacketData
    <2>2. Allocation'
      BY <1>2, <1>3 DEF Allocation, DecodePacketData
    <2>3. NoLeakedStream' /\ ClearedIsUnregistered'
      BY <1>2, <1>3, <2>1 DEF NoLeakedStream, ClearedIsUnregistered, DecodePacketData
    <2> QED BY <2>1, <2>2, <2>3
  <1>4. CASE FollowTcpIgnore
    <2>1. /\ Filing' /\ OneStreamPerConnection'
          /\ \A s \in StreamIds : Registered(s)' <=> Registered(s)
      BY <1>4, MapUntouched DEF FollowTcpIgnore
    <2>2. Allocation'
      BY <1>2, <1>4 DEF Allocation, FollowTcpIgnore
    <2>3. NoLeakedStream' /\ ClearedIsUnregistered'
      BY <1>2, <1>4, <2>1 DEF NoLeakedStream, ClearedIsUnregistered, FollowTcpIgnore
    <2> QED BY <2>1, <2>2, <2>3
  <1>5. CASE FollowTcpCreate
    <2>1. id + 1 \in StreamIds /\ id' = id + 1
      BY <1>2, <1>5 DEF Allocation, FollowTcpCreate
    <2>2. \A t \in Tuples : tcpStreamsMap'[t] = IF t = pkt.tuple THEN id + 1 ELSE tcpStreamsMap[t]
      BY <1>2, <1>5 DEF FollowTcpCreate, IInv, TypeOK, RegistryType
    <2>3. \A s \in StreamIds : tuple'[s] = IF s = id + 1 THEN pkt.tuple ELSE tuple[s]
      BY <1>5 DEF FollowTcpCreate, IInv, TypeOK, RegistryType
    <2>4. Filing'
      <3> SUFFICES ASSUME NEW t \in Tuples, tcpStreamsMap'[t] # None
                   PROVE  tcpStreamsMap'[t] <= id' /\ tuple'[tcpStreamsMap'[t]] = t
        BY DEF Filing
      <3>1. id \in Nat
        BY <1>2 DEF IInv, TypeOK, RegistryType
      <3>2. CASE t = pkt.tuple
        <4>1. tcpStreamsMap'[t] = id + 1 /\ tuple'[id + 1] = t
          BY <2>1, <2>2, <2>3, <3>2
        <4> QED BY <2>1, <3>1, <4>1
      <3>3. CASE t # pkt.tuple
        <4>1. PICK s : s = tcpStreamsMap[t] /\ s = tcpStreamsMap'[t]
          BY <2>2, <3>3
        <4>2. s \in StreamIds /\ s <= id /\ tuple[s] = t
          BY <1>2, <4>1 DEF Filing, IInv, TypeOK, RegistryType
        <4>3. s # id + 1 /\ s <= id + 1
          BY <3>1, <4>2
        <4>4. tuple'[s] = t
          BY <2>3, <4>2, <4>3
        <4> QED BY <2>1, <4>1, <4>3, <4>4
      <3> QED BY <3>2, <3>3
    <2>5. OneStreamPerConnection'
      <3>1. tcpStreamsMap[pkt.tuple] = None /\ tcpStreamsMap[Rev(pkt.tuple)] = None
        BY <1>5 DEF FollowTcpCreate, Lookup
      <3>2. SUFFICES ASSUME NEW t \in Tuples
                     PROVE  tcpStreamsMap'[t] = None \/ tcpStreamsMap'[Rev(t)] = None
        BY DEF OneStreamPerConnection
      <3>3. Rev(t) \in Tuples /\ Rev(Rev(t)) = t /\ Rev(pkt.tuple) \in Tuples
            /\ Rev(t) # t /\ Rev(pkt.tuple) # pkt.tuple
        BY <1>2, RevTuple DEF Tuples, Rev
      <3>4. CASE t = pkt.tuple \/ Rev(t) = pkt.tuple
        BY <2>2, <3>1, <3>3, <3>4
      <3>5. CASE t # pkt.tuple /\ Rev(t) # pkt.tuple
        BY <2>2, <3>3, <3>5 DEF IInv, OneStreamPerConnection
      <3> QED BY <3>4, <3>5
    <2>6. Allocation'
      BY <1>2, <1>5, <2>1, <2>3 DEF Allocation, FollowTcpCreate
    <2>7. \A s \in StreamIds : s # id + 1 => (Registered(s)' <=> Registered(s))
      <3>1. tcpStreamsMap[pkt.tuple] = None
        BY <1>5 DEF FollowTcpCreate, Lookup
      <3> QED BY <2>2, <3>1 DEF Registered
    <2>8. NoLeakedStream'
      BY <1>2, <1>5, <2>1, <2>7 DEF NoLeakedStream, FollowTcpCreate
    <2>9. ClearedIsUnregistered'
      BY <1>2, <1>5, <2>1, <2>7 DEF ClearedIsUnregistered, Allocation, FollowTcpCreate
    <2> QED BY <2>4, <2>5, <2>6, <2>8, <2>9
  <1>6. CASE FollowTcpGap
    <2>1. /\ Filing' /\ OneStreamPerConnection'
          /\ \A s \in StreamIds : Registered(s)' <=> Registered(s)
      BY <1>6, MapUntouched DEF FollowTcpGap
    <2>2. Lookup(pkt.tuple) <= id
      BY <1>2, <1>6, RevTuple DEF FollowTcpGap, Lookup, IInv, Filing
    <2>3. Allocation'
      BY <1>2, <1>6, <2>2 DEF Allocation, FollowTcpGap
    <2>4. NoLeakedStream' /\ ClearedIsUnregistered'
      BY <1>2, <1>6, <2>1 DEF NoLeakedStream, ClearedIsUnregistered, FollowTcpGap
    <2> QED BY <2>1, <2>3, <2>4
  <1>7. CASE FollowTcpAccept
    <2>1. /\ Filing' /\ OneStreamPerConnection'
          /\ \A s \in StreamIds : Registered(s)' <=> Registered(s)
      BY <1>7, MapUntouched DEF FollowTcpAccept
    <2>2. Lookup(pkt.tuple) <= id
      BY <1>2, <1>7, RevTuple DEF FollowTcpAccept, Lookup, IInv, Filing
    <2>3. Allocation'
      BY <1>2, <1>7, <2>2 DEF Allocation, FollowTcpAccept
    <2>4. NoLeakedStream' /\ ClearedIsUnregistered'
      BY <1>2, <1>7, <2>1 DEF NoLeakedStream, ClearedIsUnregistered, FollowTcpAccept
    <2> QED BY <2>1, <2>3, <2>4
  <1>8. CASE AddPacketTimer
    <2>1. /\ Filing' /\ OneStreamPerConnection'
          /\ \A s \in StreamIds : Registered(s)' <=> Registered(s)
      BY <1>8, MapUntouched DEF AddPacketTimer
    <2>2. Allocation'
      BY <1>2, <1>8 DEF Allocation, AddPacketTimer
    <2>3. NoLeakedStream' /\ ClearedIsUnregistered'
      BY <1>2, <1>8, <2>1 DEF NoLeakedStream, ClearedIsUnregistered, AddPacketTimer
    <2> QED BY <2>1, <2>2, <2>3
  <1>9. CASE AddPacketParse
    <2>1. /\ Filing' /\ OneStreamPerConnection'
          /\ \A s \in StreamIds : Registered(s)' <=> Registered(s)
      BY <1>9, MapUntouched DEF AddPacketParse
    <2>2. Allocation'
      BY <1>2, <1>9 DEF Allocation, AddPacketParse
    <2>3. NoLeakedStream' /\ ClearedIsUnregistered'
      BY <1>2, <1>9, <2>1 DEF NoLeakedStream, ClearedIsUnregistered, AddPacketParse
    <2> QED BY <2>1, <2>2, <2>3
  <1>10. CASE AddPacketFin
    <2>1. /\ Filing' /\ OneStreamPerConnection'
          /\ \A s \in StreamIds : Registered(s)' <=> Registered(s)
      BY <1>10, MapUntouched DEF AddPacketFin
    <2>2. Allocation'
      BY <1>2, <1>10 DEF Allocation, AddPacketFin
    <2>3. NoLeakedStream' /\ ClearedIsUnregistered'
      BY <1>2, <1>10, <2>1 DEF NoLeakedStream, ClearedIsUnregistered, AddPacketFin
    <2> QED BY <2>1, <2>2, <2>3
  <1>11. CASE GapInStream
    <2>1. /\ Filing' /\ OneStreamPerConnection'
          /\ \A s \in StreamIds : Registered(s)' <=> Registered(s)
      BY <1>11, MapUntouched DEF GapInStream
    <2>2. Allocation'
      BY <1>2, <1>11 DEF Allocation, GapInStream
    <2>3. NoLeakedStream' /\ ClearedIsUnregistered'
      BY <1>2, <1>11, <2>1 DEF NoLeakedStream, ClearedIsUnregistered, GapInStream
    <2> QED BY <2>1, <2>2, <2>3
  <1>12. CASE DropDelete
    <2>1. /\ Filing' /\ OneStreamPerConnection' /\ ~Registered(cur)'
          /\ \A r \in StreamIds : Registered(r)' => Registered(r)
      BY <1>2, <1>12, DeregisterStream DEF DropDelete, Allocation
    <2>2. Allocation'
      BY <1>2, <1>12 DEF Allocation, DropDelete
    <2>3. NoLeakedStream' /\ ClearedIsUnregistered'
      BY <1>2, <1>12, <2>1 DEF NoLeakedStream, ClearedIsUnregistered, DropDelete
    <2> QED BY <2>1, <2>2, <2>3
  <1>13. CASE DropNullify
    <2>1. /\ Filing' /\ OneStreamPerConnection'
          /\ \A s \in StreamIds : Registered(s)' <=> Registered(s)
      BY <1>13, MapUntouched DEF DropNullify
    <2>2. Allocation'
      BY <1>2, <1>13 DEF Allocation, DropNullify
    <2>3. NoLeakedStream' /\ ClearedIsUnregistered'
      BY <1>2, <1>13, <2>1 DEF NoLeakedStream, ClearedIsUnregistered, DropNullify
    <2> QED BY <2>1, <2>2, <2>3
  <1>14. ASSUME NEW s \in StreamIds, TimerFires(s) PROVE Rest'
    <2>1. /\ Filing' /\ OneStreamPerConnection'
          /\ \A r \in StreamIds : Registered(r)' <=> Registered(r)
      BY <1>14, MapUntouched DEF TimerFires
    <2>2. Allocation'
      BY <1>2, <1>14 DEF Allocation, TimerFires
    <2>3. NoLeakedStream' /\ ClearedIsUnregistered'
      BY <1>2, <1>14, <2>1 DEF NoLeakedStream, ClearedIsUnregistered, TimerFires
    <2> QED BY <2>1, <2>2, <2>3
  <1>15. ASSUME NEW s \in StreamIds, ExpireDelete(s) PROVE Rest'
    <2>1. s <= id
      BY <1>2, <1>15 DEF Allocation, ExpireDelete
    <2>2. /\ Filing' /\ OneStreamPerConnection' /\ ~Registered(s)'
          /\ \A r \in StreamIds : Registered(r)' => Registered(r)
      BY <1>15, <2>1, DeregisterStream DEF ExpireDelete
    <2>3. \A r \in StreamIds : r # s => expiring'[r] = expiring[r] /\ nulling'[r] = nulling[r]
      BY <1>2, <1>15 DEF ExpireDelete
    <2>4. Allocation'
      BY <1>2, <1>15, <2>1, <2>3 DEF Allocation, ExpireDelete
    <2>5. NoLeakedStream'
      BY <1>2, <1>15, <2>2, <2>3 DEF NoLeakedStream, ExpireDelete
    <2>6. ClearedIsUnregistered'
      BY <1>2, <1>15, <2>2, <2>3 DEF ClearedIsUnregistered, ExpireDelete
    <2> QED BY <2>2, <2>4, <2>5, <2>6
  <1>16. ASSUME NEW s \in StreamIds, ExpireNullify(s) PROVE Rest'
    <2>1. /\ Filing' /\ OneStreamPerConnection'
          /\ \A r \in StreamIds : Registered(r)' <=> Registered(r)
      BY <1>16, MapUntouched DEF ExpireNullify
    <2>2. Allocation'
      BY <1>2, <1>16 DEF Allocation, ExpireNullify
    <2>3. NoLeakedStream' /\ ClearedIsUnregistered'
      BY <1>2, <1>16, <2>1 DEF NoLeakedStream, ClearedIsUnregistered, ExpireNullify
    <2> QED BY <2>1, <2>2, <2>3
  <1>17. CASE Tick
    <2>1. /\ Filing' /\ OneStreamPerConnection'
          /\ \A s \in StreamIds : Registered(s)' <=> Registered(s)
      BY <1>17, MapUntouched DEF Tick
    <2>2. Allocation'
      BY <1>2, <1>17 DEF Allocation, Tick
    <2>3. NoLeakedStream' /\ ClearedIsUnregistered'
      BY <1>2, <1>17, <2>1 DEF NoLeakedStream, ClearedIsUnregistered, Tick
    <2> QED BY <2>1, <2>2, <2>3
  <1>18. CASE RuntimeAbort
    <2>1. /\ Filing' /\ OneStreamPerConnection'
          /\ \A s \in StreamIds : Registered(s)' <=> Registered(s)
      BY <1>18, MapUntouched DEF RuntimeAbort
    <2>2. Allocation'
      BY <1>2, <1>18 DEF Allocation, RuntimeAbort
    <2>3. NoLeakedStream' /\ ClearedIsUnregistered'
      BY <1>2, <1>18, <2>1 DEF NoLeakedStream, ClearedIsUnregistered, RuntimeAbort
    <2> QED BY <2>1, <2>2, <2>3
  <1>19. CASE UNCHANGED vars
    <2>1. /\ Filing' /\ OneStreamPerConnection'
          /\ \A s \in StreamIds : Registered(s)' <=> Registered(s)
      BY <1>19, MapUntouched DEF vars
    <2>2. Allocation'
      BY <1>2, <1>19 DEF Allocation, vars
    <2>3. NoLeakedStream' /\ ClearedIsUnregistered'
      BY <1>2, <1>19, <2>1 DEF NoLeakedStream, ClearedIsUnregistered, vars
    <2> QED BY <2>1, <2>2, <2>3
  <1> HIDE DEF Rest
  <1> QED BY <1>3, <1>4, <1>5, <1>6, <1>7, <1>8, <1>9, <1>10, <1>11, <1>12, <1>13,
             <1>14, <1>15, <1>16, <1>17, <1>18, <1>19
          DEF Next, SnifferStep, ExpireStep

-------------------------------------------------------------------------------
\* The inductive invariant holds in every reachable state.
THEOREM Invariant == Spec => []IInv
  BY InitIInv, NextIInv, PTL DEF Spec

\* Every variable keeps its type.
THEOREM TypeCorrect == Spec => []TypeOK
  BY Invariant, PTL DEF IInv

\* However packets, timers and Expire goroutines interleave, a connection is
\* never followed by two streams at once.
THEOREM ConnectionsNotSplit == Spec => []OneStreamPerConnection
  BY Invariant, PTL DEF IInv

\* A registered stream always has a timer or a goroutine that will remove it.
THEOREM StreamsNotLeaked == Spec => []NoLeakedStream
  BY Invariant, PTL DEF IInv

\* Expire never clears the data of a stream that packets can still reach.
THEOREM ClearedUnreachable == Spec => []ClearedIsUnregistered
  BY Invariant, PTL DEF IInv
-------------------------------------------------------------------------------
(* Sequence numbers and positions.                                         *)

LEMMA Remainder ==
    ASSUME NEW a \in Int, NEW n \in Nat \ {0}
    PROVE  a % n \in 0 .. n - 1 /\ \E k \in Int : a = n * k + (a % n)
<1>1. a \div n \in Int /\ a = n * (a \div n) + (a % n)
    BY Z3
<1>2. a % n \in 0 .. n - 1
    BY Z3
<1> QED BY <1>1, <1>2

\* Numbers between 0 and n that differ by a multiple of n are the same.
LEMMA SameRemainder ==
    ASSUME NEW n \in Nat \ {0}, NEW a \in 0 .. n - 1, NEW b \in 0 .. n - 1,
           NEW k \in Int, NEW m \in Int, a + n * k = b + n * m
    PROVE  a = b
<1>1. n * (k - m) = b - a /\ k - m \in Int
    BY Z3
<1>2. \A j \in Int : j > 0 => n * j >= n
    BY Z3
<1>3. \A j \in Int : j < 0 => n * j <= -n
    BY Z3
<1>4. n * 0 = 0
    BY Z3
<1> QED BY <1>1, <1>2, <1>3, <1>4

\* Adding to a remainder is adding to the number.
LEMMA RemainderOfSum ==
    ASSUME NEW n \in Nat \ {0}, NEW a \in Int, NEW b \in Int
    PROVE  ((a % n) + b) % n = (a + b) % n
<1>1. PICK k \in Int : a = n * k + (a % n)
    BY Remainder
<1>2. a % n \in Int /\ (a % n) + b \in Int /\ a + b \in Int
    BY Remainder
<1>3. PICK l \in Int : (a % n) + b = n * l + (((a % n) + b) % n)
    BY <1>2, Remainder
<1>4. PICK m \in Int : a + b = n * m + ((a + b) % n)
    BY <1>2, Remainder
<1>5. ((a % n) + b) % n \in 0 .. n - 1 /\ (a + b) % n \in 0 .. n - 1
    BY <1>2, Remainder
<1>6. PICK x, y : x = ((a % n) + b) % n /\ y = (a + b) % n
    OBVIOUS
<1>7. x \in Int /\ y \in Int /\ x + n * l + n * k = y + n * m
  <2>1. n * k \in Int /\ n * l \in Int /\ n * m \in Int
      BY Z3
  <2> QED BY <1>1, <1>2, <1>3, <1>4, <1>5, <1>6, <2>1
<1>8. n * (l + k) = n * l + n * k /\ l + k \in Int
    BY Z3
<1>9. x + n * (l + k) = y + n * m
  <2>1. n * k \in Int /\ n * l \in Int
      BY Z3
  <2> QED BY <1>7, <1>8, <2>1
<1>10. x \in 0 .. n - 1 /\ y \in 0 .. n - 1
    BY <1>5, <1>6
<1>11. x = y
  <2>1. PICK j \in Int : j = l + k
      BY <1>8
  <2>2. x + n * j = y + n * m
      BY <1>9, <2>1
  <2> QED BY <1>10, <2>2, SameRemainder
<1> QED BY <1>6, <1>11

\* The signed difference of two sequence numbers is that of the positions they stand
\* for, when these are less than half of the sequence space apart.
LEMMA SignedDifference ==
    ASSUME NEW a \in Int, NEW b \in Int,
           a - b < SeqSpace \div 2, b - a < SeqSpace \div 2
    PROVE  Int32((a % SeqSpace) - (b % SeqSpace)) = a - b
<1>1. PICK n \in Nat \ {0} : n = SeqSpace
    BY SeqAssumption
<1>2. n \div 2 \in Nat /\ (n \div 2) + (n \div 2) <= n
    BY Z3
<1>3. PICK k \in Int : a = n * k + (a % n)
    BY Remainder
<1>4. PICK l \in Int : b = n * l + (b % n)
    BY Remainder
<1>5. PICK x \in 0 .. n - 1, y \in 0 .. n - 1 : x = a % n /\ y = b % n
    BY Remainder
<1>6. PICK z \in 0 .. n - 1 : z = (x - y) % n /\ (z = x - y \/ z = x - y + n)
  <2>1. (x - y) % n \in 0 .. n - 1
    <3>1. x - y \in Int
        OBVIOUS
    <3> QED BY <3>1, Remainder
  <2>2. CASE x - y >= 0
    <3>1. x - y \in Nat /\ x - y < n
        BY <2>2
    <3>2. (x - y) % n = x - y
        BY <3>1, Z3
    <3> QED BY <3>2, <2>1
  <2>3. CASE x - y < 0
    <3>1. x - y \in Int /\ -n <= x - y
        OBVIOUS
    <3>2. (x - y) % n = x - y + n
        BY <2>3, <3>1, Z3
    <3> QED BY <3>2, <2>1
  <2> QED BY <2>2, <2>3
<1>7. \E m \in Int : z = (a - b) + n * m
  <2>1. /\ n * (l - k) = n * l - n * k /\ n * ((l - k) + 1) = n * l - n * k + n
        /\ n * l \in Int /\ n * k \in Int /\ l - k \in Int /\ (l - k) + 1 \in Int
      BY Z3
  <2>2. CASE z = x - y
    <3>1. z = (a - b) + n * (l - k)
        BY <2>1, <2>2, <1>3, <1>4, <1>5
    <3> QED BY <3>1, <2>1
  <2>3. CASE z = x - y + n
    <3>1. PICK u \in Int, v \in Int : u = n * k /\ v = n * l
        BY <2>1
    <3>2. a = u + x /\ b = v + y
        BY <1>3, <1>4, <1>5, <3>1
    <3>3. z = (a - b) + (v - u + n)
        BY <2>3, <3>2
    <3>4. z = (a - b) + n * ((l - k) + 1)
        BY <3>1, <3>3, <2>1
    <3> QED BY <3>4, <2>1
  <2> QED BY <1>6, <2>2, <2>3
<1>8. PICK m \in Int : z = (a - b) + n * m
    BY <1>7
<1>9. n * 0 = 0 /\ n * 1 = n
    BY Z3
<1>10. CASE a - b >= 0
  <2>1. z + n * 0 = (a - b) + n * m /\ a - b \in 0 .. n - 1
      BY <1>1, <1>2, <1>8, <1>9, <1>10
  <2>2. z = a - b
      BY <2>1, SameRemainder
  <2> QED BY <1>1, <1>5, <1>6, <2>2 DEF Int32
<1>11. CASE a - b < 0
  <2>1. (a - b) + n \in 0 .. n - 1 /\ ~((a - b) + n < n \div 2)
      BY <1>1, <1>2, <1>11
  <2>2. z + n * 1 = ((a - b) + n) + n * m
    <3>1. n * m \in Int
        BY Z3
    <3> QED BY <1>8, <1>9, <3>1
  <2>3. z = (a - b) + n
      BY <2>1, <2>2, SameRemainder
  <2> QED BY <1>1, <1>5, <1>6, <2>1, <2>3 DEF Int32
<1> QED BY <1>10, <1>11

\* The tuple of the packets that a stream receives in direction d.
TupleOf(s, d) == IF d = TcpDirectionOriginal THEN tuple[s] ELSE Rev(tuple[s])

\* A lastSeq that is set is the sequence number of the position it stands for.
SeqInv ==
    /\ \A s \in StreamIds, d \in Directions : s > id => parsedTo[s][d] = NoPosition
    /\ \A s \in StreamIds, d \in Directions :
          s > id => lastSeq[s][d] = 0
    /\ \A s \in StreamIds, d \in Directions :
          lastSeq[s][d] # 0 => lastSeq[s][d] = (ISN[TupleOf(s, d)] + upTo[s][d]) % SeqSpace

\* The packet in hand lies less than half of the sequence space (2 GB) before or
\* behind what the stream has seen, as the window of TCP makes sure.
InWindow ==
    LET s == Lookup(pkt.tuple)  d == DirectionOf(pkt.tuple) IN
    pc = "follow" /\ s # None =>
        /\ pkt.pos + pkt.len - upTo[s][d] < SeqSpace \div 2
        /\ upTo[s][d] - pkt.pos < SeqSpace \div 2

LEMMA LookupTuple ==
    ASSUME IInv, NEW t \in Tuples, NEW s, s = Lookup(t), s # None, NEW d, d = DirectionOf(t)
    PROVE  s \in StreamIds /\ s <= id /\ d \in Directions /\ TupleOf(s, d) = t
<1>1. RegistryType /\ Filing
    BY DEF IInv, TypeOK
<1>2. s \in StreamIds /\ d \in Directions
    BY <1>1, LookupType
<1>3. Rev(t) \in Tuples /\ Rev(Rev(t)) = t
    BY RevTuple
<1>4. CASE tcpStreamsMap[t] # None
    BY <1>1, <1>2, <1>4 DEF Lookup, DirectionOf, Filing, TupleOf
<1>5. CASE tcpStreamsMap[t] = None
    BY <1>1, <1>2, <1>3, <1>5 DEF Lookup, DirectionOf, Filing, TupleOf
<1> QED BY <1>4, <1>5

LEMMA SequenceNumbers ==
    ASSUME NEW p \in Packets
    PROVE  /\ ISN[p.tuple] \in Int /\ p.pos \in Nat /\ p.len \in Nat
           /\ StartSeq(p) = (ISN[p.tuple] + p.pos) % SeqSpace
           /\ EndSeq(p) = (ISN[p.tuple] + (p.pos + p.len)) % SeqSpace
<1>1. p.tuple \in Tuples /\ p.pos \in Nat /\ p.len \in Nat
    BY EndSeqType
<1>2. PICK i \in Nat : i = ISN[p.tuple]
    BY <1>1, SeqAssumption
<1>3. EndSeq(p) = ((i + p.pos) + p.len) % SeqSpace
  <2>1. i + p.pos \in Int /\ p.len \in Int /\ SeqSpace \in Nat \ {0}
      BY <1>1, SeqAssumption
  <2> QED BY <1>2, <2>1, RemainderOfSum DEF EndSeq, StartSeq
<1>4. (i + p.pos) + p.len = i + (p.pos + p.len)
    BY <1>1
<1> QED BY <1>1, <1>2, <1>3, <1>4 DEF StartSeq

\* The two tests of FollowTcp, for a packet in the window.
LEMMA Decisions ==
    ASSUME IInv, SeqInv, InWindow, pc = "follow",
           NEW s, s = Lookup(pkt.tuple), s # None, NEW d, d = DirectionOf(pkt.tuple),
           pkt.len > 0, lastSeq[s][d] # 0
    PROVE  /\ IsRetransmission(pkt, lastSeq[s][d]) <=> pkt.pos + pkt.len <= upTo[s][d]
           /\ IsGap(pkt, lastSeq[s][d]) <=> pkt.pos > upTo[s][d]
<1>1. pkt \in Packets /\ pkt.tuple \in Tuples /\ HistoryType
    BY EndSeqType DEF IInv, TypeOK, SnifferType
<1>2. s \in StreamIds /\ d \in Directions /\ TupleOf(s, d) = pkt.tuple
    BY <1>1, LookupTuple
<1>3. PICK u \in Int : u = upTo[s][d]
    BY <1>1, <1>2 DEF HistoryType
<1>4. PICK i \in Int : i = ISN[pkt.tuple]
    BY <1>1, SequenceNumbers
<1>5. lastSeq[s][d] = (i + u) % SeqSpace
    BY <1>2, <1>3, <1>4 DEF SeqInv
<1>6. /\ pkt.pos \in Nat /\ pkt.len \in Nat /\ StartSeq(pkt) = (i + pkt.pos) % SeqSpace
      /\ EndSeq(pkt) = (i + (pkt.pos + pkt.len)) % SeqSpace
    BY <1>1, <1>4, SequenceNumbers
<1>7. pkt.pos + pkt.len - u < SeqSpace \div 2 /\ u - pkt.pos < SeqSpace \div 2
    BY <1>3 DEF InWindow
<1>8. SeqSpace \div 2 \in Int
    BY SeqAssumption
<1>9. PICK a \in Int, b \in Int, c \in Int :
         a = i + (pkt.pos + pkt.len) /\ b = i + u /\ c = i + pkt.pos
    BY <1>6
<1>10. Int32(EndSeq(pkt) - lastSeq[s][d]) = a - b
  <2>1. a - b < SeqSpace \div 2 /\ b - a < SeqSpace \div 2
      BY <1>6, <1>7, <1>8, <1>9
  <2> QED BY <1>5, <1>6, <1>9, <2>1, SignedDifference
<1>11. Int32(lastSeq[s][d] - StartSeq(pkt)) = b - c
  <2>1. b - c < SeqSpace \div 2 /\ c - b < SeqSpace \div 2
      BY <1>6, <1>7, <1>8, <1>9
  <2> QED BY <1>5, <1>6, <1>9, <2>1, SignedDifference
<1>12. IsRetransmission(pkt, lastSeq[s][d]) <=> pkt.pos + pkt.len <= u
    BY <1>6, <1>9, <1>10 DEF IsRetransmission, TcpSeqBeforeEq
<1>13. IsGap(pkt, lastSeq[s][d]) <=> pkt.pos > u
    BY <1>6, <1>9, <1>10, <1>11 DEF IsGap, TcpSeqBeforeEq, TcpSeqBefore
<1> QED BY <1>3, <1>12, <1>13

LEMMA SeqInit == Init => SeqInv
BY DEF Init, SeqInv

\* Only FollowTcp moves lastSeq and the positions.
LEMMA SeqSteps ==
    ASSUME [Next]_vars
    PROVE  FollowTcpCreate \/ FollowTcpAccept \/ UNCHANGED <<id, tuple, lastSeq, upTo, parsedTo, silentHole>>
<1> USE DEF streamVars, snifferVars, historyVars
<1>1. CASE \E p \in Packets : DecodePacketData(p)
    BY <1>1 DEF DecodePacketData
<1>2. CASE SnifferStep
    BY <1>2 DEF SnifferStep, FollowTcpIgnore, FollowTcpGap, AddPacketTimer, AddPacketParse,
                AddPacketFin, GapInStream, DropDelete, DropNullify
<1>3. CASE \E s \in StreamIds : ExpireStep(s)
    BY <1>3 DEF ExpireStep, TimerFires, ExpireDelete, ExpireNullify
<1>4. CASE Tick \/ RuntimeAbort \/ UNCHANGED vars
    BY <1>4 DEF Tick, RuntimeAbort, vars
<1> QED BY <1>1, <1>2, <1>3, <1>4 DEF Next

\* What accepting a packet does to the numbers of its stream and of the others.
LEMMA AcceptedNumbers ==
    ASSUME LastSeqType, HistoryType, NEW s \in StreamIds, NEW d \in Directions, Accepted(s, d, pkt),
           lastSeq' = [lastSeq EXCEPT ![s][d] = EndSeq(pkt)]
    PROVE  /\ lastSeq'[s][d] = EndSeq(pkt) /\ upTo'[s][d] = pkt.pos + pkt.len
           /\ \A r \in StreamIds, e \in Directions : r # s \/ e # d =>
                 lastSeq'[r][e] = lastSeq[r][e] /\ upTo'[r][e] = upTo[r][e] /\ parsedTo'[r][e] = parsedTo[r][e]
<1>1. upTo' = [upTo EXCEPT ![s][d] = pkt.pos + pkt.len]
    BY DEF Accepted
<1>2. parsedTo' = parsedTo \/ parsedTo' = [parsedTo EXCEPT ![s][d] = pkt.pos + pkt.len]
    BY DEF Accepted
<1>3. \A r \in StreamIds, e \in Directions : r # s \/ e # d => parsedTo'[r][e] = parsedTo[r][e]
  <2>1. CASE parsedTo' = parsedTo
      BY <2>1
  <2>2. CASE parsedTo' = [parsedTo EXCEPT ![s][d] = pkt.pos + pkt.len]
      BY <2>2 DEF HistoryType
  <2> QED BY <1>2, <2>1, <2>2
<1>4. /\ upTo'[s][d] = pkt.pos + pkt.len
      /\ \A r \in StreamIds, e \in Directions : r # s \/ e # d => upTo'[r][e] = upTo[r][e]
    BY <1>1 DEF HistoryType
<1>5. /\ lastSeq'[s][d] = EndSeq(pkt)
      /\ \A r \in StreamIds, e \in Directions : r # s \/ e # d => lastSeq'[r][e] = lastSeq[r][e]
    BY DEF LastSeqType
<1> QED BY <1>3, <1>4, <1>5

LEMMA SeqStep == IInv /\ SeqInv /\ [Next]_vars => SeqInv'
<1> SUFFICES ASSUME IInv, SeqInv, [Next]_vars PROVE SeqInv'
    OBVIOUS
<1>1. pkt \in Packets /\ pkt.tuple \in Tuples /\ HistoryType /\ LastSeqType /\ RegistryType
    BY EndSeqType DEF IInv, TypeOK, SnifferType
<1>2. EndSeq(pkt) = (ISN[pkt.tuple] + (pkt.pos + pkt.len)) % SeqSpace
    BY <1>1, SequenceNumbers
<1>3. CASE FollowTcpCreate
  <2>1. PICK s : s = id + 1
      OBVIOUS
  <2>2. s \in StreamIds /\ id' = s /\ id \in Nat /\ TcpDirectionOriginal \in Directions
      BY <1>1, <1>3, <2>1, BoundsAssumption DEF RegistryType, IInv, Allocation, FollowTcpCreate
  <2>3. \A r \in StreamIds : tuple'[r] = IF r = s THEN pkt.tuple ELSE tuple[r]
      BY <1>1, <1>3, <2>1 DEF FollowTcpCreate, RegistryType
  <2>4. /\ lastSeq'[s][TcpDirectionOriginal] = EndSeq(pkt)
        /\ upTo'[s][TcpDirectionOriginal] = pkt.pos + pkt.len
        /\ \A r \in StreamIds, e \in Directions : r # s \/ e # TcpDirectionOriginal =>
              lastSeq'[r][e] = lastSeq[r][e] /\ upTo'[r][e] = upTo[r][e] /\ parsedTo'[r][e] = parsedTo[r][e]
      BY <1>1, <1>3, <2>1, <2>2, AcceptedNumbers DEF FollowTcpCreate
  <2>5. \A r \in StreamIds, e \in Directions : r > id' => r > id /\ r # s
      BY <2>1, <2>2
  <2>6. ASSUME NEW r \in StreamIds, NEW e \in Directions, lastSeq'[r][e] # 0
        PROVE  lastSeq'[r][e] = (ISN[TupleOf(r, e)'] + upTo'[r][e]) % SeqSpace
    <3>1. CASE r = s
      <4>1. e = TcpDirectionOriginal
        <5>1. lastSeq[s][e] = 0
            BY <2>1, <2>2 DEF SeqInv
        <5> QED BY <5>1, <2>4, <2>6, <3>1
      <4>2. TupleOf(r, e)' = pkt.tuple
          BY <2>3, <3>1, <4>1 DEF TupleOf
      <4> QED BY <1>2, <2>4, <3>1, <4>1, <4>2
    <3>2. CASE r # s
      <4>1. TupleOf(r, e)' = TupleOf(r, e)
          BY <2>3, <3>2 DEF TupleOf
      <4> QED BY <2>4, <2>6, <3>2, <4>1 DEF SeqInv
    <3> QED BY <3>1, <3>2
  <2> QED BY <2>4, <2>5, <2>6 DEF SeqInv
<1>4. CASE FollowTcpAccept
  <2>1. PICK s, d : s = Lookup(pkt.tuple) /\ d = DirectionOf(pkt.tuple)
      OBVIOUS
  <2>2. s # None /\ Accepted(s, d, pkt) /\ lastSeq' = [lastSeq EXCEPT ![s][d] = EndSeq(pkt)]
        /\ id' = id /\ tuple' = tuple
      BY <1>4, <2>1 DEF FollowTcpAccept
  <2>3. s \in StreamIds /\ s <= id /\ d \in Directions /\ TupleOf(s, d) = pkt.tuple
      BY <1>1, <2>1, <2>2, LookupTuple
  <2>4. /\ lastSeq'[s][d] = EndSeq(pkt) /\ upTo'[s][d] = pkt.pos + pkt.len
        /\ \A r \in StreamIds, e \in Directions : r # s \/ e # d =>
              lastSeq'[r][e] = lastSeq[r][e] /\ upTo'[r][e] = upTo[r][e] /\ parsedTo'[r][e] = parsedTo[r][e]
      BY <1>1, <2>2, <2>3, AcceptedNumbers
  <2>5. \A r \in StreamIds, e \in Directions : r > id' => r > id /\ r # s
      BY <1>1, <2>2, <2>3 DEF RegistryType
  <2>6. \A r \in StreamIds, e \in Directions : TupleOf(r, e)' = TupleOf(r, e)
      BY <2>2 DEF TupleOf
  <2>7. ASSUME NEW r \in StreamIds, NEW e \in Directions, lastSeq'[r][e] # 0
        PROVE  lastSeq'[r][e] = (ISN[TupleOf(r, e)'] + upTo'[r][e]) % SeqSpace
    <3>1. CASE r = s /\ e = d
        BY <1>2, <2>3, <2>4, <2>6, <3>1
    <3>2. CASE r # s \/ e # d
        BY <2>4, <2>6, <2>7, <3>2 DEF SeqInv
    <3> QED BY <3>1, <3>2
  <2> QED BY <2>4, <2>5, <2>7 DEF SeqInv
<1>5. CASE UNCHANGED <<id, tuple, lastSeq, upTo, parsedTo, silentHole>>
    BY <1>5 DEF SeqInv, TupleOf
<1> QED BY <1>3, <1>4, <1>5, SeqSteps

\* No hole goes unnoticed for another reason than a FIN or a lastSeq of 0.
LEMMA HolesStep ==
    ASSUME IInv, SeqInv, InWindow, HolesOnlyAfterFinOrWrap, [Next]_vars
    PROVE  HolesOnlyAfterFinOrWrap'
<1>1. pkt \in Packets /\ pkt.tuple \in Tuples /\ HistoryType /\ RegistryType
    BY EndSeqType DEF IInv, TypeOK, SnifferType
<1>2. ASSUME NEW s \in StreamIds, NEW d \in Directions, Accepted(s, d, pkt),
             \/ parsedTo[s][d] = NoPosition
             \/ pkt.len > 0 /\ lastSeq[s][d] # 0 => pkt.pos <= upTo[s][d]
      PROVE  HolesOnlyAfterFinOrWrap'
  <2>1. pkt.pos \in Nat /\ pkt.len \in Nat /\ upTo[s][d] \in Int /\ parsedTo[s][d] \in Int
      BY <1>1, <1>2, EndSeqType DEF HistoryType
  <2>2. PICK why : /\ why = IF lastSeq[s][d] = 0 THEN "wrapped"
                            ELSE IF upTo[s][d] > parsedTo[s][d] THEN "fin" ELSE "other"
                   /\ \/ silentHole' = silentHole
                      \/ /\ pkt.len # 0 /\ ~(parsedTo[s][d] = NoPosition \/ pkt.pos <= parsedTo[s][d])
                         /\ silentHole' = [silentHole EXCEPT ![s][d] = why]
      BY <1>2 DEF Accepted
  <2>3. CASE silentHole' = silentHole
      BY <2>3 DEF HolesOnlyAfterFinOrWrap
  <2>4. CASE silentHole' # silentHole
    <3>1. why # "other"
        BY <1>2, <2>1, <2>2, <2>4
    <3>2. \A r \in StreamIds, e \in Directions :
             silentHole'[r][e] = silentHole[r][e] \/ silentHole'[r][e] = why
      <4>1. silentHole' = [silentHole EXCEPT ![s][d] = why]
          BY <2>2, <2>4
      <4>2. silentHole \in [StreamIds -> [Directions -> {"none", "wrapped", "fin", "other"}]]
          BY <1>1 DEF HistoryType
      <4> QED BY <4>1, <4>2
    <3> QED BY <3>1, <3>2 DEF HolesOnlyAfterFinOrWrap
  <2> QED BY <2>3, <2>4
<1>3. CASE FollowTcpCreate
  <2>1. PICK s : s = id + 1
      OBVIOUS
  <2>2. s \in StreamIds /\ s > id /\ TcpDirectionOriginal \in Directions
      BY <1>1, <1>3, <2>1, BoundsAssumption DEF RegistryType, IInv, Allocation, FollowTcpCreate
  <2>3. Accepted(s, TcpDirectionOriginal, pkt)
      BY <1>3, <2>1 DEF FollowTcpCreate
  <2>4. parsedTo[s][TcpDirectionOriginal] = NoPosition
      BY <2>2 DEF SeqInv
  <2> QED BY <1>2, <2>2, <2>3, <2>4
<1>4. CASE FollowTcpAccept
  <2>1. PICK s, d : s = Lookup(pkt.tuple) /\ d = DirectionOf(pkt.tuple)
      OBVIOUS
  <2>2. s # None /\ Accepted(s, d, pkt) /\ pc = "follow" /\ ~IsGap(pkt, lastSeq[s][d])
      BY <1>4, <2>1 DEF FollowTcpAccept
  <2>3. s \in StreamIds /\ d \in Directions
      BY <1>1, <2>1, <2>2, LookupTuple
  <2>4. pkt.pos \in Nat /\ upTo[s][d] \in Int
      BY <1>1, <2>3, EndSeqType DEF HistoryType
  <2>5. pkt.len > 0 /\ lastSeq[s][d] # 0 => pkt.pos <= upTo[s][d]
    <3> SUFFICES ASSUME pkt.len > 0, lastSeq[s][d] # 0 PROVE pkt.pos <= upTo[s][d]
        OBVIOUS
    <3>1. ~(pkt.pos > upTo[s][d])
        BY <2>1, <2>2, Decisions
    <3> QED BY <2>4, <3>1
  <2> QED BY <1>2, <2>2, <2>3, <2>5
<1>5. CASE UNCHANGED <<id, tuple, lastSeq, upTo, parsedTo, silentHole>>
    BY <1>5 DEF HolesOnlyAfterFinOrWrap
<1> QED BY <1>3, <1>4, <1>5, SeqSteps

\* As long as the packets lie in the window, FollowTcp's tests with 32-bit numbers
\* decide as the true positions would, however often the numbers wrap around.
THEOREM DecisionsAreRight == Spec /\ []InWindow => []DecisionsMatchPositions
<1>1. IInv /\ SeqInv /\ InWindow => DecisionsMatchPositions
    BY Decisions DEF DecisionsMatchPositions
<1> QED BY <1>1, Invariant, SeqInit, SeqStep, PTL DEF Spec

\* As long as the packets lie in the window, a plugin is given data behind a hole
\* without GapInStream only after a FIN that moved lastSeq, or with a lastSeq of 0.
THEOREM HolesAreNoticed == Spec /\ []InWindow => []HolesOnlyAfterFinOrWrap
<1>1. Init => HolesOnlyAfterFinOrWrap
    BY DEF Init, HolesOnlyAfterFinOrWrap
<1>2. IInv /\ SeqInv /\ InWindow /\ HolesOnlyAfterFinOrWrap /\ [Next]_vars => HolesOnlyAfterFinOrWrap'
    BY HolesStep
<1> QED BY <1>1, <1>2, Invariant, SeqInit, SeqStep, PTL DEF Spec
===============================================================================
