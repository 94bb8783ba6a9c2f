---------------------------------- MODULE Tcp ----------------------------------
(***************************************************************************)
(* The TCP stream table of packetbeat (protos/tcp/tcp.go).                 *)
(*                                                                         *)
(* Actors:                                                                 *)
(*   - the sniffer goroutine, which decodes one packet at a time and       *)
(*     carries it through FollowTcp (pc, pkt, cur, dir are its locals);    *)
(*   - the goroutines that time.AfterFunc starts when the timer of a       *)
(*     stream goes off, each running stream.Expire().  Timer.Stop does     *)
(*     not recall a goroutine that was already started.                    *)
(* Nothing in the code is protected by a lock: the steps below interleave, *)
(* and two simultaneous accesses to tcpStreamsMap may abort the process.   *)
(*                                                                         *)
(* Packets are what a capture can show of a TCP connection: pos is the     *)
(* true position of the first payload byte in its direction, len the       *)
(* number of payload bytes, and the sequence number on the wire is         *)
(* (ISN + pos) modulo SeqSpace.  Packets may be lost, repeated and         *)
(* reordered: the sniffer receives any member of Packets at any time.      *)
(***************************************************************************)
EXTENDS Integers

CONSTANTS
    Endpoints,      \* (address, port) pairs
    PortProtocol,   \* tcpPortMap seen from an endpoint: its protocol or Unknown
    Unknown,        \* protos.UnknownProtocol
    NoTuple,        \* the tuple of a stream that is not allocated yet
    ISN,            \* initial sequence number of each direction
    SeqSpace,       \* 2^32 in the code
    Packets,        \* the packets a capture may show
    Expiry,         \* TCP_STREAM_EXPIRY in ticks
    MaxStreams,     \* bound: streams created in a behaviour
    MaxPackets      \* bound: packets captured in a behaviour

Tuples == {t \in Endpoints \X Endpoints : t[1] # t[2]}

ASSUME PacketsAssumption ==
    /\ Packets \subseteq [tuple : Tuples, pos : Nat, len : Nat, fin : BOOLEAN]
    /\ Packets # {}
ASSUME SeqAssumption ==
    /\ SeqSpace \in Nat \ {0}
    /\ ISN \in [Tuples -> 0 .. SeqSpace - 1]
ASSUME BoundsAssumption ==
    /\ Expiry \in Nat \ {0}
    /\ MaxStreams \in Nat \ {0}
    /\ MaxPackets \in Nat
ASSUME NoTupleAssumption == NoTuple \notin Tuples

NoPosition == -1            \* nothing accepted yet
None == 0                   \* no stream: a key that is absent from the map
StreamIds == 1 .. MaxStreams
TcpDirectionReverse == 0
TcpDirectionOriginal == 1
Directions == {TcpDirectionReverse, TcpDirectionOriginal}

VARIABLES
    tcpStreamsMap,  \* tuple -> stream id, or None
    id,             \* the counter behind GetId
    tuple,          \* stream.tuple
    lastSeq,        \* stream.lastSeq
    timer,          \* the streams whose stream.timer is running
    data,           \* the streams whose stream.Data is not nil
    idle,           \* ticks since a packet of the stream was last accepted
    expiring,       \* Expire goroutines that have not touched the map yet
    nulling,        \* Expire goroutines between the delete and Data = nil
    pc,             \* what the sniffer goroutine does next
    pkt,            \* the packet it holds
    cur,            \* the stream it works on
    dir,            \* original_dir
    received,       \* packets captured so far
    aborted,        \* the runtime killed the process
    \* History, read by the properties only.
    upTo,           \* true position that lastSeq stands for
    parsedTo,       \* true position up to which Parse was given data
    silentHole      \* why a missing byte went unnoticed, if one did

streamVars == <<id, tuple, lastSeq>>
timerVars == <<timer, idle, expiring>>
snifferVars == <<pc, pkt, cur, dir, received>>
historyVars == <<upTo, parsedTo, silentHole>>
vars == <<tcpStreamsMap, streamVars, timerVars, data, nulling, snifferVars,
          aborted, historyVars>>

-------------------------------------------------------------------------------
(* Pure parts.                                                             *)

Rev(t) == <<t[2], t[1]>>

\* decideProtocol: the source port is looked up first.
decideProtocol(t) ==
    IF PortProtocol[t[1]] # Unknown THEN PortProtocol[t[1]] ELSE PortProtocol[t[2]]

\* int32(x) of an unsigned difference.
Int32(x) ==
    IF x % SeqSpace < SeqSpace \div 2 THEN x % SeqSpace
                                      ELSE (x % SeqSpace) - SeqSpace

\* Mutant: the numbers are compared as they are, without the wrap-around.
TcpSeqBeforePlain(seq1, seq2) == seq1 < seq2

TcpSeqBefore(seq1, seq2) == Int32(seq1 - seq2) < 0
TcpSeqBeforeEq(seq1, seq2) == Int32(seq1 - seq2) <= 0

StartSeq(p) == (ISN[p.tuple] + p.pos) % SeqSpace
\* Mutant: the sum does not wrap at 32 bits.
EndSeqUnwrapped(p) == StartSeq(p) + p.len

EndSeq(p) == (StartSeq(p) + p.len) % SeqSpace

\* Mutant: the reverse tuple is not looked up.
LookupForwardOnly(t) == tcpStreamsMap[t]

\* The stream of a tuple, under either orientation.
Lookup(t) == IF tcpStreamsMap[t] # None THEN tcpStreamsMap[t]
                                        ELSE tcpStreamsMap[Rev(t)]
DirectionOf(t) == IF tcpStreamsMap[t] = None /\ tcpStreamsMap[Rev(t)] # None
                  THEN TcpDirectionReverse ELSE TcpDirectionOriginal

\* The two tests of FollowTcp against the last sequence number.
IsRetransmission(p, last) ==
    p.len > 0 /\ last # 0 /\ TcpSeqBeforeEq(EndSeq(p), last)
\* Mutant: one missing byte is tolerated.
IsGapOffByOne(p, last) ==
    /\ p.len > 0 /\ last # 0
    /\ ~ TcpSeqBeforeEq(EndSeq(p), last)
    /\ TcpSeqBefore(last + 1, StartSeq(p))

IsGap(p, last) ==
    /\ p.len > 0 /\ last # 0
    /\ ~ TcpSeqBeforeEq(EndSeq(p), last)
    /\ TcpSeqBefore(last, StartSeq(p))

-------------------------------------------------------------------------------
(* The sniffer goroutine.                                                  *)

\* DecodePacketData: an empty packet without FIN is of no use.  The bounds
\* end the capture.
DecodePacketData(p) ==
    /\ pc = "idle"
    /\ received < MaxPackets /\ id < MaxStreams
    /\ received' = received + 1
    /\ IF p.len = 0 /\ ~p.fin
       THEN UNCHANGED <<pc, pkt>>
       ELSE pc' = "follow" /\ pkt' = p
    /\ UNCHANGED <<tcpStreamsMap, streamVars, timerVars, data, nulling, cur, dir,
                   aborted, historyVars>>

\* FollowTcp returns without touching a stream: unknown ports, or a
\* retransmitted segment.
FollowTcpIgnore ==
    /\ pc = "follow"
    /\ \/ Lookup(pkt.tuple) = None /\ decideProtocol(pkt.tuple) = Unknown
       \/ /\ Lookup(pkt.tuple) # None
          /\ IsRetransmission(pkt, lastSeq[Lookup(pkt.tuple)][DirectionOf(pkt.tuple)])
    /\ pc' = "idle"
    /\ UNCHANGED <<tcpStreamsMap, streamVars, timerVars, data, nulling, pkt, cur,
                   dir, received, aborted, historyVars>>

\* Ghost bookkeeping of an accepted packet.  A hole in front of it goes
\* unnoticed when lastSeq is 0, or when lastSeq no longer stands for the
\* data that was parsed.
Accepted(s, d, p) ==
    /\ upTo' = [upTo EXCEPT ![s][d] = p.pos + p.len]
    /\ IF p.len = 0 THEN UNCHANGED <<parsedTo, silentHole>>
       ELSE /\ parsedTo' = [parsedTo EXCEPT ![s][d] = p.pos + p.len]
            /\ silentHole' =
                 IF parsedTo[s][d] = NoPosition \/ p.pos <= parsedTo[s][d] THEN silentHole
                 ELSE [silentHole EXCEPT ![s][d] =
                        IF lastSeq[s][d] = 0 THEN "wrapped"
                        ELSE IF upTo[s][d] > parsedTo[s][d] THEN "fin"
                        ELSE "other"]

\* FollowTcp creates and registers a stream.
FollowTcpCreate ==
    /\ pc = "follow"
    /\ Lookup(pkt.tuple) = None /\ decideProtocol(pkt.tuple) # Unknown
    /\ id' = id + 1
    /\ tuple' = [tuple EXCEPT ![id + 1] = pkt.tuple]
    /\ tcpStreamsMap' = [tcpStreamsMap EXCEPT ![pkt.tuple] = id + 1]
    /\ lastSeq' = [lastSeq EXCEPT ![id + 1][TcpDirectionOriginal] = EndSeq(pkt)]
    /\ cur' = id + 1 /\ dir' = TcpDirectionOriginal
    /\ pc' = "timer"
    /\ Accepted(id + 1, TcpDirectionOriginal, pkt)
    /\ UNCHANGED <<timerVars, data, nulling, pkt, received, aborted>>

\* FollowTcp finds the stream and sees a segment that skips bytes.
FollowTcpGap ==
    LET s == Lookup(pkt.tuple)  d == DirectionOf(pkt.tuple) IN
    /\ pc = "follow"
    /\ s # None /\ IsGap(pkt, lastSeq[s][d])
    /\ cur' = s /\ dir' = d
    /\ pc' = "gap"
    /\ UNCHANGED <<tcpStreamsMap, streamVars, timerVars, data, nulling, pkt,
                   received, aborted, historyVars>>

\* FollowTcp finds the stream and accepts the packet.
FollowTcpAccept ==
    LET s == Lookup(pkt.tuple)  d == DirectionOf(pkt.tuple) IN
    /\ pc = "follow"
    /\ s # None
    /\ ~ IsRetransmission(pkt, lastSeq[s][d]) /\ ~ IsGap(pkt, lastSeq[s][d])
    /\ lastSeq' = [lastSeq EXCEPT ![s][d] = EndSeq(pkt)]
    /\ cur' = s /\ dir' = d
    /\ pc' = "timer"
    /\ Accepted(s, d, pkt)
    /\ UNCHANGED <<tcpStreamsMap, id, tuple, timerVars, data, nulling, pkt,
                   received, aborted>>

\* Mutant: only data starts the timer.
AddPacketTimerDataOnly ==
    /\ pc = "timer"
    /\ timer' = IF pkt.len > 0 THEN timer \cup {cur} ELSE timer \ {cur}
    /\ idle' = [idle EXCEPT ![cur] = 0]
    /\ pc' = IF pkt.len > 0 THEN "parse" ELSE "fin"
    /\ UNCHANGED <<tcpStreamsMap, streamVars, expiring, data, nulling, pkt, cur,
                   dir, received, aborted, historyVars>>

\* Mutant: the running timer is stopped and not started again.
AddPacketTimerStopOnly ==
    /\ pc = "timer"
    /\ timer' = IF cur \in timer THEN timer \ {cur} ELSE timer \cup {cur}
    /\ idle' = [idle EXCEPT ![cur] = 0]
    /\ pc' = IF pkt.len > 0 THEN "parse" ELSE "fin"
    /\ UNCHANGED <<tcpStreamsMap, streamVars, expiring, data, nulling, pkt, cur,
                   dir, received, aborted, historyVars>>

\* AddPacket, first half: stop the old timer, start a new one.
AddPacketTimer ==
    /\ pc = "timer"
    /\ timer' = timer \cup {cur}
    /\ idle' = [idle EXCEPT ![cur] = 0]
    /\ pc' = IF pkt.len > 0 THEN "parse" ELSE "fin"
    /\ UNCHANGED <<tcpStreamsMap, streamVars, expiring, data, nulling, pkt, cur,
                   dir, received, aborted, historyVars>>

\* AddPacket: stream.Data = mod.Parse(...).  A plugin whose Parse fails, or
\* panics and recovers, returns nil.
AddPacketParse ==
    /\ pc = "parse"
    /\ data' \in {data \cup {cur}, data \ {cur}}
    /\ pc' = IF pkt.fin THEN "fin" ELSE "idle"
    /\ UNCHANGED <<tcpStreamsMap, streamVars, timerVars, nulling, pkt, cur, dir,
                   received, aborted, historyVars>>

\* AddPacket: mod.ReceivedFin returns the private data it was given.
AddPacketFin ==
    /\ pc = "fin"
    /\ pc' = "idle"
    /\ UNCHANGED <<tcpStreamsMap, streamVars, timerVars, data, nulling, pkt, cur,
                   dir, received, aborted, historyVars>>

\* GapInStream; a panic of the plugin ends FollowTcp in its deferred Recover,
\* and the stream is then not dropped.
GapInStream ==
    /\ pc = "gap"
    /\ pc' \in {"drop", "idle"}
    /\ UNCHANGED <<tcpStreamsMap, streamVars, timerVars, data, nulling, pkt, cur,
                   dir, received, aborted, historyVars>>

-------------------------------------------------------------------------------
(* Expire: remove the entry of the stream's tuple, then clear the data.    *)

\* Mutant: the reverse tuple is removed.
DeregisterReverse(s) == tcpStreamsMap' = [tcpStreamsMap EXCEPT ![Rev(tuple[s])] = None]

Deregister(s) == tcpStreamsMap' = [tcpStreamsMap EXCEPT ![tuple[s]] = None]

\* "drop stream": the sniffer goroutine calls Expire itself.
DropDelete ==
    /\ pc = "drop"
    /\ Deregister(cur)
    /\ pc' = "nullify"
    /\ UNCHANGED <<streamVars, timerVars, data, nulling, pkt, cur, dir, received,
                   aborted, historyVars>>

DropNullify ==
    /\ pc = "nullify"
    /\ data' = data \ {cur}
    /\ pc' = "idle"
    /\ UNCHANGED <<tcpStreamsMap, streamVars, timerVars, nulling, pkt, cur, dir,
                   received, aborted, historyVars>>

\* The timer of s goes off and starts a goroutine.
TimerFires(s) ==
    /\ s \in timer /\ idle[s] = Expiry
    /\ timer' = timer \ {s}
    /\ expiring' = [expiring EXCEPT ![s] = @ + 1]
    /\ UNCHANGED <<tcpStreamsMap, streamVars, idle, data, nulling, snifferVars,
                   aborted, historyVars>>

ExpireDelete(s) ==
    /\ expiring[s] > 0
    /\ Deregister(s)
    /\ expiring' = [expiring EXCEPT ![s] = @ - 1]
    /\ nulling' = [nulling EXCEPT ![s] = @ + 1]
    /\ UNCHANGED <<streamVars, timer, idle, data, snifferVars, aborted, historyVars>>

ExpireNullify(s) ==
    /\ nulling[s] > 0
    /\ data' = data \ {s}
    /\ nulling' = [nulling EXCEPT ![s] = @ - 1]
    /\ UNCHANGED <<tcpStreamsMap, streamVars, timerVars, snifferVars, aborted,
                   historyVars>>

-------------------------------------------------------------------------------
(* Time, and the Go runtime.                                               *)

\* Time passes; Expiry ticks of idleness are as good as more.
Tick ==
    /\ \E s \in timer : idle[s] < Expiry
    /\ idle' = [s \in StreamIds |-> IF s <= id /\ idle[s] < Expiry
                                    THEN idle[s] + 1 ELSE idle[s]]
    /\ UNCHANGED <<tcpStreamsMap, streamVars, timer, expiring, data, nulling,
                   snifferVars, aborted, historyVars>>

\* Two goroutines are about to access the map, neither holding a lock: the
\* runtime may detect it and abort, which no Recover catches.
ConcurrentMapAccess ==
    \/ pc \in {"follow", "drop"} /\ \E s \in StreamIds : expiring[s] > 0
    \/ \E s \in StreamIds : expiring[s] > 1
    \/ \E r, s \in StreamIds : r # s /\ expiring[r] > 0 /\ expiring[s] > 0

RuntimeAbort ==
    /\ ConcurrentMapAccess
    /\ aborted' = TRUE
    /\ UNCHANGED <<tcpStreamsMap, streamVars, timerVars, data, nulling, snifferVars,
                   historyVars>>

-------------------------------------------------------------------------------
Init ==
    /\ tcpStreamsMap = [t \in Tuples |-> None]
    /\ id = 0
    /\ tuple = [s \in StreamIds |-> NoTuple]
    /\ lastSeq = [s \in StreamIds |-> [d \in Directions |-> 0]]
    /\ timer = {}
    /\ data = {}
    /\ idle = [s \in StreamIds |-> 0]
    /\ expiring = [s \in StreamIds |-> 0]
    /\ nulling = [s \in StreamIds |-> 0]
    /\ pc = "idle"
    /\ pkt = CHOOSE p \in Packets : TRUE
    /\ cur = 1
    /\ dir = TcpDirectionOriginal
    /\ received = 0
    /\ aborted = FALSE
    /\ upTo = [s \in StreamIds |-> [d \in Directions |-> NoPosition]]
    /\ parsedTo = [s \in StreamIds |-> [d \in Directions |-> NoPosition]]
    /\ silentHole = [s \in StreamIds |-> [d \in Directions |-> "none"]]

\* What the sniffer goroutine does with the packet it holds.
SnifferStep ==
    \/ FollowTcpIgnore \/ FollowTcpCreate \/ FollowTcpGap \/ FollowTcpAccept
    \/ AddPacketTimer \/ AddPacketParse \/ AddPacketFin
    \/ GapInStream \/ DropDelete \/ DropNullify

\* What the timers and their goroutines do.
ExpireStep(s) == TimerFires(s) \/ ExpireDelete(s) \/ ExpireNullify(s)

Next ==
    /\ ~aborted
    /\ \/ \E p \in Packets : DecodePacketData(p)
       \/ SnifferStep
       \/ \E s \in StreamIds : ExpireStep(s)
       \/ Tick
       \/ RuntimeAbort

Spec == Init /\ [][Next]_vars

\* The goroutines that are runnable get to run, and time passes.  Capturing
\* packets is up to the network and is not fair.
Fairness ==
    /\ WF_vars(~aborted /\ SnifferStep)
    /\ \A s \in StreamIds : WF_vars(~aborted /\ ExpireStep(s))
    /\ WF_vars(~aborted /\ Tick)

FairSpec == Spec /\ Fairness

-------------------------------------------------------------------------------
(* Properties.                                                             *)

Registered(s) == \E t \in Tuples : tcpStreamsMap[t] = s

RegistryType ==
    /\ tcpStreamsMap \in [Tuples -> StreamIds \cup {None}]
    /\ id \in 0 .. MaxStreams
    /\ tuple \in [StreamIds -> Tuples \cup {NoTuple}]
LastSeqType == lastSeq \in [StreamIds -> [Directions -> 0 .. SeqSpace - 1]]
TimerType == timer \subseteq StreamIds /\ data \subseteq StreamIds
CounterType ==
    /\ idle \in [StreamIds -> 0 .. Expiry]
    /\ expiring \in [StreamIds -> Nat]
    /\ nulling \in [StreamIds -> Nat]
SnifferType ==
    /\ pc \in {"idle", "follow", "timer", "parse", "fin", "gap", "drop", "nullify"}
    /\ pkt \in Packets
    /\ cur \in StreamIds
    /\ dir \in Directions
    /\ received \in 0 .. MaxPackets
    /\ aborted \in BOOLEAN
HistoryType ==
    /\ upTo \in [StreamIds -> [Directions -> Int]]
    /\ parsedTo \in [StreamIds -> [Directions -> Int]]
    /\ silentHole \in [StreamIds -> [Directions -> {"none", "wrapped", "fin", "other"}]]

\* Types of the variables; lastSeq in particular stays a 32-bit number.
TypeOK == /\ RegistryType /\ LastSeqType /\ TimerType /\ CounterType
          /\ SnifferType /\ HistoryType

\* A connection is followed by one stream: whatever FollowTcp and the expiring
\* timers do, a tuple and its reverse are never both in tcpStreamsMap, so the
\* two directions of a connection meet in the same stream.
OneStreamPerConnection ==
    \A t \in Tuples : tcpStreamsMap[t] = None \/ tcpStreamsMap[Rev(t)] = None

\* No stream is leaked: each stream in tcpStreamsMap has a running timer, an
\* Expire goroutine that will remove it, or the sniffer goroutine has just
\* registered it and starts its timer next (AddPacket starts the timer before
\* it calls the plugin, so a plugin that panics leaks nothing).
NoLeakedStream ==
    \A s \in StreamIds :
        Registered(s) => \/ s \in timer
                         \/ expiring[s] > 0
                         \/ cur = s /\ pc = "timer"

\* Expire clears the private data of a stream only when no later packet can
\* reach that stream: between its delete and its Data = nil, the stream is
\* not (and never again) in tcpStreamsMap.
ClearedIsUnregistered ==
    \A s \in StreamIds :
        nulling[s] > 0 \/ (pc = "nullify" /\ cur = s) => ~Registered(s)

\* The wrap-around comparison of FollowTcp agrees with the true positions: a
\* segment counts as retransmitted exactly when all its bytes lie before the
\* position lastSeq stands for, and as a gap exactly when it starts after it.
DecisionsMatchPositions ==
    LET s == Lookup(pkt.tuple)  d == DirectionOf(pkt.tuple) IN
    pc = "follow" /\ s # None /\ pkt.len > 0 /\ lastSeq[s][d] # 0 =>
            /\ IsRetransmission(pkt, lastSeq[s][d]) <=> pkt.pos + pkt.len <= upTo[s][d]
            /\ IsGap(pkt, lastSeq[s][d]) <=> pkt.pos > upTo[s][d]

\* Missing bytes reach a plugin unannounced only in the two ways the code
\* leaves open: lastSeq is exactly 0, or an empty FIN moved lastSeq past data
\* that was never parsed.
HolesOnlyAfterFinOrWrap ==
    \A s \in StreamIds, d \in Directions : silentHole[s][d] # "other"

\* Every stream is dropped in the end: once the capture is over all timers
\* go off, and tcpStreamsMap becomes and stays empty (main.go waits for this
\* before it writes the memory profile).
AllStreamsExpire == <>[](aborted \/ \A t \in Tuples : tcpStreamsMap[t] = None)

===============================================================================
