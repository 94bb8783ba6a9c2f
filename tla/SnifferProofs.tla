------------------------------ MODULE SnifferProofs ------------------------------
(***************************************************************************)
(* Theorems about the sniffer, for every configuration, page size, length  *)
(* of the capture file and capacity of the queue.                          *)
(***************************************************************************)
EXTENDS Sniffer, TLAPS

\* What integer division means: a quotient and a remainder below the divisor.
LEMMA Division ==
    ASSUME NEW a \in Nat, NEW b \in Nat \ {0}
    PROVE  /\ a \div b \in Nat
           /\ (a \div b) * b <= a
           /\ a < (a \div b + 1) * b
<1>1. a \div b \in Nat /\ a = b * (a \div b) + (a % b) /\ a % b \in 0 .. (b - 1)
    BY Z3
<1> QED BY <1>1, Z3

\* A larger product of naturals with the same factor has the larger other factor.
LEMMA Cancel ==
    ASSUME NEW a \in Nat, NEW b \in Nat, NEW c \in Nat \ {0}, a * c < b * c
    PROVE  a < b
BY Z3

\* A frame of afpacketComputeSize is at least as long as the snaplen, be it smaller
\* or larger than a page.
LEMMA FrameLongEnough ==
    ASSUME NEW len \in Nat \ {0}, NEW page \in Nat \ {0}
    PROVE  FrameSize(len, page) \in Nat /\ FrameSize(len, page) >= len
<1>1. CASE len < page
    <2> DEFINE q == page \div len
               f == page \div q
    <2>1. q \in Nat /\ q * len <= page /\ page < (q + 1) * len
        BY Division
    <2>2. q # 0
        BY <1>1, <2>1, Z3
    <2>3. f \in Nat /\ page < (f + 1) * q
        BY <2>1, <2>2, Division
    <2> HIDE DEF q, f
    <2>4. len * q < (f + 1) * q
        BY <2>1, <2>3, Z3
    <2>5. len < f + 1
        <3>1. f + 1 \in Nat BY <2>3
        <3>2. q \in Nat \ {0} BY <2>1, <2>2
        <3> QED BY <2>4, <3>1, <3>2, Cancel
    <2>6. FrameSize(len, page) = f
        BY <1>1 DEF FrameSize, q, f
    <2> QED BY <2>3, <2>5, <2>6, Z3
<1>2. CASE ~(len < page)
    <2>1. len \div page \in Nat /\ len < (len \div page + 1) * page
        BY Division
    <2>2. FrameSize(len, page) = (len \div page + 1) * page
        BY <1>2 DEF FrameSize
    <2> QED BY <2>1, <2>2, Z3
<1> QED BY <1>1, <1>2

\* The number of blocks of afpacketComputeSize is the largest that fits.
LEMMA BlocksFit ==
    ASSUME NEW mb \in Nat, NEW len \in Nat \ {0}, NEW page \in Nat \ {0}
    PROVE  /\ BlockSize(len, page) \in Nat
           /\ NumBlocks(mb, len, page) \in Nat
           /\ NumBlocks(mb, len, page) * BlockSize(len, page) <= mb * MegaByte
           /\ mb * MegaByte < (NumBlocks(mb, len, page) + 1) * BlockSize(len, page)
<1> DEFINE b == BlockSize(len, page)
           t == mb * MegaByte
<1>1. b \in Nat \ {0}
    BY FrameLongEnough, Z3 DEF BlockSize
<1>2. t \in Nat
    BY DEF MegaByte
<1>3. NumBlocks(mb, len, page) = t \div b
    BY DEF NumBlocks
<1> HIDE DEF b, t
<1>4. t \div b \in Nat /\ (t \div b) * b <= t /\ t < (t \div b + 1) * b
    BY <1>1, <1>2, Division
<1> QED BY <1>1, <1>3, <1>4 DEF b, t

\* The remainder of a multiple.
LEMMA Multiple ==
    ASSUME NEW a \in Nat, NEW b \in Nat \ {0}
    PROVE  (a * b) % b = 0
<1> DEFINE x == a * b
           q == x \div b
           r == x % b
<1>1. x \in Nat
    BY Z3
<1>2. q \in Int /\ x = b * q + r /\ r \in 0 .. (b - 1)
    BY <1>1, Z3
<1> HIDE DEF q, r
<1>3. a * b = b * q + r
    BY <1>2
<1>4. a = q
    <2>1. CASE a > q
        <3>1. (a - q) * b >= b
            BY <1>2, <2>1, Z3
        <3> QED BY <1>2, <1>3, <3>1, Z3
    <2>2. CASE a < q
        <3>1. (q - a) * b >= b
            BY <1>2, <2>2, Z3
        <3> QED BY <1>2, <1>3, <3>1, Z3
    <2> QED BY <1>2, <2>1, <2>2
<1>5. r = 0
    <2>1. a * b = b * a + r
        BY <1>3, <1>4
    <2> QED BY <1>2, <2>1, Z3
<1> QED BY <1>5 DEF r

\* Frames of several pages make blocks of whole pages.
LEMMA BlocksAreWholePages ==
    ASSUME NEW len \in Nat \ {0}, NEW page \in Nat \ {0}, len >= page
    PROVE  BlockSize(len, page) % page = 0
<1> DEFINE n == (len \div page + 1) * 128
<1>1. n \in Nat
    BY Division
<1>2. len \div page \in Nat
    BY Division
<1>3. BlockSize(len, page) = (len \div page + 1) * page * 128
    BY DEF BlockSize, FrameSize
<1>4. BlockSize(len, page) = n * page
    BY <1>2, <1>3, Z3
<1> HIDE DEF n
<1> QED BY <1>1, <1>4, Multiple

\* setFromConfig leaves no snaplen at 0, and a file is read with pcap.
LEMMA Defaults ==
    ASSUME NEW c \in Configs
    PROVE  LET d == WithDefaults(c) IN
           /\ d.snaplen \in Nat \ {0} /\ d.buffer_size_mb \in Nat
           /\ d.loop = c.loop /\ d.file = c.file
           /\ d.file => d.type = "pcap"
<1> DEFINE d == WithDefaults(c)
<1>1. /\ c.snaplen \in Nat /\ c.buffer_size_mb \in Nat
    BY SnifferAssumption DEF Configs
<1>2. d.snaplen \in {c.snaplen, 16436, 1514} /\ d.snaplen # 0
    BY <1>1 DEF WithDefaults
<1>3. d.buffer_size_mb \in {c.buffer_size_mb, 24}
    BY DEF WithDefaults
<1>4. d.loop = c.loop
    BY DEF WithDefaults
<1>5. d.file = c.file
    BY DEF WithDefaults
<1>6. c.file => d.type = "pcap"
    BY DEF WithDefaults
<1> HIDE DEF d
<1> QED BY <1>1, <1>2, <1>3, <1>4, <1>5, <1>6 DEF d

-------------------------------------------------------------------------------
\* What the configuration is before and after setFromConfig.
ConfigInv ==
    /\ spc = "init" => config \in Configs
    /\ config.loop \in Loops
    /\ spc # "init" => /\ config.snaplen \in Nat \ {0} /\ config.buffer_size_mb \in Nat
                       /\ config.file => config.type = "pcap"

\* As long as the sniffer is alive, its data source is open.
HandleInv ==
    /\ spc = "init" => source = "none" /\ ~isAlive
    /\ spc # "init" => source = config.type
    /\ isAlive => source \in open
    /\ spc = "read" => source \in open

DumpInv ==
    /\ dumped = counter
    /\ spc \in {"init", "return"} => dumper = "closed"
    /\ spc \in {"init", "start"} => counter = 0
    /\ exit \notin {"no", "killed"} => spc \in {"init", "start", "return"}

\* The last packet is one of this pass.
TimeInv ==
    /\ pos \in Nat /\ lastPktTime \in Nat
    /\ lastPktTime <= pos
    /\ ~backwards

\* A file is read -l times: where the sniffer is in it, and when it is through.
Counted ==
    \/ /\ loopCount <= config.loop
       /\ pos <= PassLen
       /\ counter = (loopCount - 1) * PassLen + pos
    \/ /\ loopCount = config.loop + 1
       /\ pos = PassLen
       /\ counter = config.loop * PassLen
       /\ spc = "flush" \/ (~isAlive /\ spc \in {"loop", "finish", "return"})

LoopInv ==
    /\ counter \in Nat /\ loopCount \in Nat \ {0} /\ pos \in Nat
    /\ spc = "init" => counter = 0 /\ loopCount = 1 /\ pos = 0
    /\ retError => spc \in {"loop", "finish", "return"} /\ ~isAlive
    /\ config.file /\ config.loop > 0 /\ ~retError => Counted
    /\ spc = "flush" => config.file /\ config.loop > 0 /\ loopCount > config.loop
    /\ spc \in {"finish", "return"} => ~isAlive
    /\ ~isAlive /\ spc # "init" /\ ~signalled /\ ~retError =>
           config.file /\ config.loop > 0 /\ loopCount > config.loop
    /\ exit = "ok" => spc = "return" /\ ~retError

SnifferInv == ConfigInv /\ HandleInv /\ RingFits /\ DumpInv /\ TimeInv /\ LoopInv

\* The invariant holds when the process starts.
LEMMA SnifferInitInv == Init => SnifferInv
<1> SUFFICES ASSUME Init PROVE SnifferInv
    OBVIOUS
<1>1. ConfigInv BY DEF Init, ConfigInv, Configs
<1>2. HandleInv BY DEF Init, HandleInv
<1>3. RingFits BY DEF Init, RingFits
<1>4. DumpInv BY DEF Init, DumpInv
<1>5. TimeInv BY DEF Init, TimeInv
<1>6. LoopInv
    <2>1. CASE config.loop > 0
        <3>1. config.loop \in Nat BY SnifferAssumption, <1>1 DEF ConfigInv
        <3> QED BY <2>1, <3>1, SnifferAssumption DEF Init, LoopInv, Counted
    <2>2. CASE ~(config.loop > 0)
        BY <2>2 DEF Init, LoopInv
    <2> QED BY <2>1, <2>2
<1> QED BY <1>1, <1>2, <1>3, <1>4, <1>5, <1>6 DEF SnifferInv

\* Once it is set, the configuration stays.
LEMMA NextConfig == SnifferInv /\ [Next]_vars => ConfigInv'
<1> SUFFICES ASSUME SnifferInv, [Next]_vars PROVE ConfigInv'
    OBVIOUS
<1> USE DEF At, setup
<1>1. CASE InitSucceeds
    <2>1. config \in Configs /\ config' = WithDefaults(config) /\ spc' = "start"
        BY <1>1 DEF InitSucceeds, SnifferInv, ConfigInv
    <2> QED BY <2>1, Defaults, SnifferAssumption DEF ConfigInv, Configs
<1>2. ASSUME config' = config, spc' = spc \/ (spc # "init" /\ spc' # "init") PROVE ConfigInv'
    BY <1>2 DEF SnifferInv, ConfigInv
<1>3. CASE InitFails \/ MainGivesUp \/ MainTested \/ MainStarts \/ Killed
    BY <1>2, <1>3 DEF InitFails, MainGivesUp, MainTested, MainStarts, Killed
<1>4. CASE RunRead \/ RunInterrupted \/ RunOther
    BY <1>2, <1>4 DEF RunRead, RunInterrupted, RunOther, RunEof, RunCheck, RunTimeout, RunError, RunEofLast, AtEof, Reopen,
        ReopenFails, RunFlushed, RunPacket, RunDecode, RunFinish, SnifferFailed, MainReturns
<1>5. CASE Stop \/ PublisherReceive BY <1>2, <1>5 DEF Stop, PublisherReceive
<1>6. CASE UNCHANGED vars BY <1>2, <1>6 DEF vars
<1> QED BY <1>1, <1>3, <1>4, <1>5, <1>6 DEF Next, Main

\* No step leaves a living sniffer, or a read, without an open handle.
LEMMA NextHandle == SnifferInv /\ [Next]_vars => HandleInv'
<1> SUFFICES ASSUME SnifferInv, [Next]_vars PROVE HandleInv'
    OBVIOUS
<1> USE DEF At, AtEof, setup, SnifferInv, HandleInv
<1>1. CASE InitSucceeds BY <1>1 DEF InitSucceeds
<1>2. CASE InitFails \/ MainGivesUp \/ MainTested \/ MainStarts \/ Killed
    BY <1>2 DEF InitFails, MainGivesUp, MainTested, MainStarts, Killed
<1>3. CASE RunCheck BY <1>3 DEF RunCheck
<1>4. CASE RunEofLast BY <1>4 DEF RunEofLast
<1>5. CASE Reopen BY <1>5 DEF Reopen, ConfigInv
<1>6. CASE ReopenFails BY <1>6 DEF ReopenFails
<1>7. CASE RunTimeout \/ RunInterrupted \/ RunError \/ RunFlushed
    BY <1>7 DEF RunTimeout, RunInterrupted, RunError, RunFlushed
<1>8. CASE RunPacket BY <1>8 DEF RunPacket
<1>9. CASE RunDecode BY <1>9 DEF RunDecode
<1>10. CASE RunFinish \/ SnifferFailed \/ MainReturns
    BY <1>10 DEF RunFinish, SnifferFailed, MainReturns
<1>11. CASE Stop BY <1>11 DEF Stop
<1>12. CASE PublisherReceive BY <1>12 DEF PublisherReceive
<1>13. CASE UNCHANGED vars BY <1>13 DEF vars
<1> QED
    BY <1>1, <1>2, <1>3, <1>4, <1>5, <1>6, <1>7, <1>8, <1>9, <1>10, <1>11, <1>12, <1>13
    DEF Next, Main, RunRead, RunOther, RunEof

\* Only setFromConfig lays out the ring buffer.
LEMMA NextRing == SnifferInv /\ [Next]_vars => RingFits'
<1> SUFFICES ASSUME SnifferInv, [Next]_vars PROVE RingFits'
    OBVIOUS
<1>1. CASE InitSucceeds
    <2> DEFINE d == WithDefaults(config)
    <2>1. config \in Configs
        BY <1>1 DEF InitSucceeds, At, SnifferInv, ConfigInv
    <2>2. d.snaplen \in Nat \ {0} /\ d.buffer_size_mb \in Nat
        BY <2>1, Defaults
    <2>3. config' = d /\ source' = d.type /\ Supported(d)
        BY <1>1 DEF InitSucceeds
    <2>4. d.type = "af_packet" =>
              /\ frame_size' = FrameSize(d.snaplen, PageSize)
              /\ block_size' = BlockSize(d.snaplen, PageSize)
              /\ num_blocks' = NumBlocks(d.buffer_size_mb, d.snaplen, PageSize)
              /\ num_blocks' # 0
        BY <1>1, <2>3 DEF InitSucceeds, Supported
    <2> HIDE DEF d
    <2>5. d.type = "af_packet" => frame_size' >= d.snaplen
        BY <2>2, <2>4, FrameLongEnough, SnifferAssumption
    <2>6. RingFits'
        <3> DEFINE mb == d.buffer_size_mb
                   blk == BlockSize(d.snaplen, PageSize)
                   n == NumBlocks(mb, d.snaplen, PageSize)
        <3>1. mb \in Nat /\ d.snaplen \in Nat \ {0} /\ PageSize \in Nat \ {0}
            BY <2>2, SnifferAssumption
        <3>2. n \in Nat /\ n * blk <= mb * MegaByte /\ mb * MegaByte < (n + 1) * blk
            BY <3>1, BlocksFit
        <3>3. d.type = "af_packet" => block_size' = blk /\ num_blocks' = n /\ n # 0
            BY <2>4
        <3>4. config'.buffer_size_mb = mb /\ config'.snaplen = d.snaplen /\ source' = d.type
            BY <2>3
        <3>5. d.snaplen >= PageSize => blk % PageSize = 0
            BY <3>1, BlocksAreWholePages
        <3> HIDE DEF mb, blk, n
        <3>6. n # 0 => n > 0
            BY <3>2
        <3> QED BY <2>5, <3>2, <3>3, <3>4, <3>5, <3>6 DEF RingFits
    <2> QED BY <2>6
<1>2. ASSUME UNCHANGED setup PROVE RingFits'
    BY <1>2 DEF SnifferInv, setup, ring, RingFits
<1>3. CASE InitFails \/ MainGivesUp \/ MainTested \/ MainStarts \/ Killed
    BY <1>2, <1>3 DEF InitFails, MainGivesUp, MainTested, MainStarts, Killed
<1>4. CASE RunRead \/ RunInterrupted \/ RunOther
    BY <1>2, <1>4 DEF RunRead, RunInterrupted, RunOther, RunEof, RunCheck, RunTimeout, RunError, RunEofLast, Reopen,
        ReopenFails, RunFlushed, RunPacket, RunDecode, RunFinish, SnifferFailed, MainReturns
<1>5. CASE Stop \/ PublisherReceive BY <1>2, <1>5 DEF Stop, PublisherReceive
<1>6. CASE UNCHANGED vars BY <1>2, <1>6 DEF vars
<1> QED BY <1>1, <1>3, <1>4, <1>5, <1>6 DEF Next, Main

\* Every packet that is counted is dumped, and the dump file is open only during Run.
LEMMA NextDump == SnifferInv /\ [Next]_vars => DumpInv'
<1> SUFFICES ASSUME SnifferInv, [Next]_vars PROVE DumpInv'
    OBVIOUS
<1> USE DEF At, AtEof, Running, dump, locals, SnifferInv, DumpInv
<1>1. CASE InitSucceeds BY <1>1 DEF InitSucceeds
<1>2. CASE InitFails \/ MainGivesUp \/ MainTested \/ MainStarts \/ Killed
    BY <1>2 DEF InitFails, MainGivesUp, MainTested, MainStarts, Killed
<1>3. CASE RunCheck \/ RunTimeout \/ RunInterrupted \/ RunError
    BY <1>3 DEF RunCheck, RunTimeout, RunInterrupted, RunError
<1>4. CASE RunEofLast BY <1>4 DEF RunEofLast
<1>5. CASE Reopen \/ ReopenFails BY <1>5 DEF Reopen, ReopenFails
<1>6. CASE RunFlushed \/ RunDecode BY <1>6 DEF RunFlushed, RunDecode
<1>7. CASE RunPacket BY <1>7 DEF RunPacket
<1>8. CASE RunFinish BY <1>8 DEF RunFinish
<1>9. CASE SnifferFailed \/ MainReturns BY <1>9 DEF SnifferFailed, MainReturns
<1>10. CASE Stop \/ PublisherReceive BY <1>10 DEF Stop, PublisherReceive
<1>11. CASE UNCHANGED vars BY <1>11 DEF vars
<1> QED
    BY <1>1, <1>2, <1>3, <1>4, <1>5, <1>6, <1>7, <1>8, <1>9, <1>10, <1>11
    DEF Next, Main, RunRead, RunOther, RunEof

\* The time of the last packet is never ahead of the position in the file.
LEMMA NextTime == SnifferInv /\ [Next]_vars => TimeInv'
<1> SUFFICES ASSUME SnifferInv, [Next]_vars PROVE TimeInv'
    OBVIOUS
<1>1. ASSUME UNCHANGED <<pos, lastPktTime, backwards>> PROVE TimeInv'
    BY <1>1 DEF SnifferInv, TimeInv
<1>2. CASE RunPacket
    <2>1. CASE config.file
        <3>1. pos \in Nat /\ lastPktTime \in Nat /\ lastPktTime <= pos /\ ~backwards
            BY DEF SnifferInv, TimeInv
        <3>2. ~(pos + 1 <= lastPktTime)
            BY <3>1
        <3>3. pos' = pos + 1 /\ lastPktTime' = pos + 1
            BY <1>2, <2>1 DEF RunPacket
        <3>4. backwards' = (backwards \/ (lastPktTime # 0 /\ pos + 1 <= lastPktTime))
            BY <1>2, <2>1, Zenon DEF RunPacket
        <3>5. ~backwards'
            BY <3>1, <3>2, <3>4, Zenon
        <3> QED BY <3>1, <3>3, <3>5 DEF TimeInv
    <2>2. CASE ~config.file
        BY <1>1, <1>2, <2>2 DEF RunPacket
    <2> QED BY <2>1, <2>2
<1>3. CASE Reopen BY <1>3 DEF Reopen, SnifferInv, TimeInv
<1>4. CASE Main \/ Stop \/ Killed \/ PublisherReceive
    BY <1>1, <1>4 DEF Main, InitFails, InitSucceeds, MainGivesUp, MainTested, MainStarts, Stop,
        Killed, PublisherReceive, locals
<1>5. CASE RunCheck \/ RunTimeout \/ RunInterrupted \/ RunError \/ RunEofLast \/ ReopenFails \/ RunFlushed
    BY <1>1, <1>5 DEF RunCheck, RunTimeout, RunInterrupted, RunError, RunEofLast, ReopenFails, RunFlushed, locals
<1>6. CASE RunDecode \/ RunFinish \/ SnifferFailed \/ MainReturns
    BY <1>1, <1>6 DEF RunDecode, RunFinish, SnifferFailed, MainReturns, locals
<1>7. CASE UNCHANGED vars BY <1>1, <1>7 DEF vars, locals
<1> QED BY <1>2, <1>3, <1>4, <1>5, <1>6, <1>7 DEF Next, Main, RunRead, RunOther, RunEof

\* The arithmetic of the passes: within pass c of n the bound is not reached.
LEMMA PassArithmetic ==
    ASSUME NEW n \in Nat, NEW c \in Nat \ {0}, NEW p \in Nat, NEW len \in Nat,
           c <= n
    PROVE  /\ p < len => (c - 1) * len + p + 1 <= n * len
           /\ (c - 1) * len + len = c * len
<1>1. (c - 1) * len + len = c * len
    BY Z3
<1>2. c * len <= n * len
    BY Z3
<1>3. (c - 1) * len \in Nat /\ c * len \in Nat /\ n * len \in Nat
    BY Z3
<1> QED BY <1>1, <1>2, <1>3, Z3

\* Whatever happens, the packets that were counted are those of the passes so far.
LEMMA NextLoop == SnifferInv /\ [Next]_vars => LoopInv'
<1> SUFFICES ASSUME SnifferInv, [Next]_vars PROVE LoopInv'
    OBVIOUS
<1> USE DEF At, AtEof, Running, setup, locals, SnifferInv, LoopInv
<1>0. config.loop \in Nat /\ config.loop < MaxCount /\ config.loop * PassLen < MaxCount
    BY SnifferAssumption DEF ConfigInv
<1>1. CASE InitSucceeds
    <2>1. config' = WithDefaults(config) /\ config \in Configs /\ spc = "init"
        BY <1>1 DEF InitSucceeds, ConfigInv
    <2>2. config'.loop = config.loop /\ config'.loop \in Nat
        BY <1>0, <2>1, Defaults
    <2>3. /\ counter' = 0 /\ loopCount' = 1 /\ pos' = 0
          /\ spc' = "start" /\ isAlive' /\ ~retError' /\ exit' = "no"
        BY <1>1 DEF InitSucceeds
    <2>4. config'.loop > 0 => Counted'
        BY <2>2, <2>3, SnifferAssumption DEF Counted
    <2> QED BY <2>3, <2>4
<1>2. CASE InitFails \/ MainGivesUp \/ MainTested \/ MainStarts \/ Killed
    BY <1>2 DEF InitFails, MainGivesUp, MainTested, MainStarts, Killed, Counted
<1>3. CASE RunCheck BY <1>3 DEF RunCheck, Counted
<1>4. CASE RunTimeout \/ RunInterrupted BY <1>4 DEF RunTimeout, RunInterrupted, Counted
<1>5. CASE RunError BY <1>5 DEF RunError, Counted
<1>6. CASE RunFlushed BY <1>6 DEF RunFlushed, Counted
<1>7. CASE RunDecode BY <1>7 DEF RunDecode, Counted
<1>8. CASE RunFinish BY <1>8 DEF RunFinish, Counted
<1>9. CASE SnifferFailed BY <1>9 DEF SnifferFailed, Counted
<1>10. CASE MainReturns BY <1>10 DEF MainReturns, Counted
<1>11. CASE Stop BY <1>11 DEF Stop, Counted
<1>12. CASE PublisherReceive BY <1>12 DEF PublisherReceive, Counted
<1>13. CASE UNCHANGED vars BY <1>13 DEF vars, Counted
<1>A. ASSUME spc = "read", config.file, config.loop > 0
      PROVE  /\ loopCount <= config.loop /\ pos <= PassLen
             /\ counter = (loopCount - 1) * PassLen + pos
    BY <1>A DEF Counted
<1>B. ASSUME spc = "read" PROVE isAlive \/ signalled \/ retError
    <2> SUFFICES ASSUME ~isAlive, ~signalled, ~retError PROVE FALSE
        OBVIOUS
    <2>1. config.file /\ config.loop > 0 /\ loopCount > config.loop
        BY <1>B
    <2> QED BY <1>0, <1>A, <1>B, <2>1
<1>C. /\ \A n \in Nat : Capped(n) \in Nat
      /\ \A n \in Nat \ {0} : MaxCount # 0 => Capped(n) \in Nat \ {0}
      /\ \A n \in Nat : n <= MaxCount => Capped(n) = n
    BY SnifferAssumption DEF Capped
<1>D. counter \in Nat /\ loopCount \in Nat \ {0} /\ pos \in Nat /\ PassLen \in Nat /\ MaxCount \in Nat \ {0}
    BY <1>0, SnifferAssumption
<1>14. CASE RunEofLast
    <2>1. /\ spc = "read" /\ config.file /\ pos = PassLen /\ config.loop > 0
          /\ loopCount + 1 > config.loop /\ exit = "no"
        BY <1>14 DEF RunEofLast, LastPass
    <2>2. /\ loopCount' = Capped(loopCount + 1) /\ counter' = counter /\ pos' = pos /\ spc' = "flush"
          /\ config' = config /\ exit' = "no" /\ ~retError'
        BY <1>14 DEF RunEofLast
    <2>3. loopCount = config.loop
        BY <1>0, <1>A, <1>D, <2>1
    <2>4. loopCount' = config.loop + 1
        <3>1. loopCount + 1 \in Nat /\ loopCount + 1 <= MaxCount
            BY <1>0, <1>D, <2>3
        <3> QED BY <1>C, <2>2, <2>3, <3>1
    <2>5. counter = (config.loop - 1) * PassLen + PassLen
        BY <1>A, <2>1, <2>3
    <2>6. counter' = config.loop * PassLen
        BY <1>0, <1>D, <2>2, <2>3, <2>5, PassArithmetic
    <2>7. Counted'
        BY <2>1, <2>2, <2>4, <2>6 DEF Counted
    <2>8. loopCount' > config'.loop /\ loopCount' \in Nat \ {0}
        BY <1>0, <2>2, <2>4
    <2> QED BY <1>D, <2>1, <2>2, <2>7, <2>8
<1>E. ASSUME Reopen \/ ReopenFails
      PROVE  /\ loopCount' \in Nat \ {0} /\ counter' \in Nat
             /\ config' = config /\ spc' = "loop" /\ exit' = "no"
             /\ config.file /\ config.loop > 0 => loopCount' = loopCount + 1 /\ loopCount' <= config.loop
             /\ counter' = counter /\ pos = PassLen /\ spc = "read"
    <2>1. /\ loopCount' = Capped(loopCount + 1) /\ counter' = counter /\ spc' = "loop"
          /\ config' = config /\ exit' = "no" /\ pos = PassLen /\ spc = "read"
          /\ ~LastPass
        BY <1>E DEF Reopen, ReopenFails
    <2>2. config.loop > 0 => loopCount + 1 <= config.loop
        BY <1>0, <1>D, <2>1 DEF LastPass
    <2>3. loopCount + 1 \in Nat \ {0}
        BY <1>D
    <2>4. loopCount' \in Nat \ {0}
        BY <1>C, <1>D, <2>1, <2>3
    <2>5. config.loop > 0 => loopCount' = loopCount + 1
        BY <1>0, <1>C, <1>D, <2>1, <2>2, <2>3
    <2> QED BY <1>D, <2>1, <2>2, <2>4, <2>5
<1>F. ASSUME Reopen \/ ReopenFails, config.file, config.loop > 0
      PROVE  counter' = loopCount * PassLen
    <2>1. counter = (loopCount - 1) * PassLen + PassLen /\ loopCount <= config.loop
        BY <1>A, <1>E, <1>F
    <2> QED BY <1>0, <1>D, <1>E, <1>F, <2>1, PassArithmetic
<1>15. CASE Reopen
    <2>1. pos' = 0 /\ isAlive' = isAlive /\ signalled' = signalled /\ retError' = retError
        BY <1>15 DEF Reopen
    <2>2. ASSUME config.file, config.loop > 0 PROVE Counted'
        <3>1. loopCount' - 1 = loopCount
            BY <1>D, <1>E, <1>15, <2>2
        <3>2. counter' = (loopCount' - 1) * PassLen + pos'
            <4>1. counter' \in Nat BY <1>E, <1>15
            <4>2. counter' = (loopCount' - 1) * PassLen BY <1>F, <1>15, <2>2, <3>1
            <4> QED BY <4>1, <4>2, <2>1
        <3>3. loopCount' <= config'.loop /\ pos' <= PassLen
            BY <1>D, <1>E, <1>15, <2>1, <2>2
        <3> QED BY <3>2, <3>3 DEF Counted
    <2>3. isAlive' \/ signalled' \/ retError'
        BY <1>B, <1>E, <1>15, <2>1
    <2> QED BY <1>E, <1>15, <2>1, <2>2, <2>3
<1>16. CASE ReopenFails
    <2>1. pos' = pos /\ retError' /\ ~isAlive'
        BY <1>16 DEF ReopenFails
    <2> QED BY <1>E, <1>16, <2>1
<1>17. CASE RunPacket
    <2>1. /\ spc = "read" /\ exit = "no" /\ exit' = "no" /\ config' = config /\ spc' = "decode"
          /\ isAlive' = isAlive /\ signalled' = signalled /\ retError' = retError
          /\ counter' = Capped(counter + 1) /\ loopCount' = loopCount
        BY <1>17 DEF RunPacket
    <2>2. pos' \in {pos, pos + 1} /\ (config.file => pos < PassLen /\ pos' = pos + 1)
        BY <1>17 DEF RunPacket
    <2>3. counter' \in Nat /\ pos' \in Nat
        BY <1>C, <1>D, <2>1, <2>2
    <2>4. ASSUME config.file, config.loop > 0 PROVE Counted'
        <3>1. loopCount <= config.loop /\ counter = (loopCount - 1) * PassLen + pos
            BY <1>A, <2>1, <2>4
        <3>2. (loopCount - 1) * PassLen + pos + 1 <= config.loop * PassLen
            BY <1>0, <1>D, <2>2, <2>4, <3>1, PassArithmetic
        <3> DEFINE q == (loopCount - 1) * PassLen
                   t == config.loop * PassLen
        <3>3. q \in Nat /\ t \in Nat /\ t < MaxCount
            <4>1. loopCount - 1 \in Nat BY <1>D
            <4> QED BY <1>0, <1>D, <4>1
        <3>4. counter = q + pos /\ q + pos + 1 <= t
            BY <3>1, <3>2
        <3> HIDE DEF q, t
        <3>5. counter' = q + (pos + 1)
            BY <1>C, <1>D, <2>1, <3>3, <3>4
        <3>6. counter' = q + pos'
            BY <2>2, <2>4, <3>5
        <3>7. pos' <= PassLen
            BY <1>D, <2>2, <2>4
        <3> QED BY <2>1, <3>1, <3>6, <3>7 DEF Counted, q
    <2>5. isAlive' \/ signalled' \/ retError'
        BY <1>B, <2>1
    <2> QED BY <1>D, <2>1, <2>3, <2>4, <2>5
<1> QED
    BY <1>1, <1>2, <1>3, <1>4, <1>5, <1>6, <1>7, <1>8, <1>9, <1>10, <1>11, <1>12, <1>13,
       <1>14, <1>15, <1>16, <1>17
    DEF Next, Main, RunRead, RunOther, RunEof

-------------------------------------------------------------------------------
\* Every step of the sniffer, of main and of the publisher preserves the invariant.
LEMMA SnifferNextInv == SnifferInv /\ [Next]_vars => SnifferInv'
BY NextConfig, NextHandle, NextRing, NextDump, NextTime, NextLoop DEF SnifferInv

\* The invariant holds in every reachable state.
THEOREM SnifferInvariant == Spec => []SnifferInv
BY SnifferInitInv, SnifferNextInv, PTL DEF Spec

\* SnifferSetup.Run reads from an open handle of the configured type only, however
\* often Reopen was called and whether or not it failed.
THEOREM HandlesStayOpen == Spec => []ReadsOpenHandle
<1>1. SnifferInv => ReadsOpenHandle
    BY DEF SnifferInv, HandleInv, ReadsOpenHandle
<1> QED BY <1>1, SnifferInvariant, PTL

\* When the process ends without a signal and without an error, Run read the file
\* exactly as often as the flag -l says.
THEOREM PassesCounted == Spec => []LoopsExactly
<1>1. SnifferInv => LoopsExactly
    <2> SUFFICES ASSUME SnifferInv, exit = "ok", ~signalled
                 PROVE  config.file /\ config.loop > 0 /\ counter = config.loop * PassLen
        BY DEF LoopsExactly
    <2>1. spc = "return" /\ ~retError /\ ~isAlive
        BY DEF SnifferInv, LoopInv
    <2>2. config.file /\ config.loop > 0 /\ loopCount > config.loop
        BY <2>1 DEF SnifferInv, LoopInv
    <2>3. config.loop \in Nat /\ loopCount \in Nat
        BY SnifferAssumption DEF SnifferInv, ConfigInv, LoopInv
    <2>4. Counted
        BY <2>1, <2>2 DEF SnifferInv, LoopInv
    <2> QED BY <2>2, <2>3, <2>4 DEF Counted
<1> QED BY <1>1, SnifferInvariant, PTL

\* However the process ends, unless it is killed, the dump file has every packet, and Run
\* has closed it if there was any.
THEOREM DumpIsComplete == Spec => []DumpComplete
<1>1. SnifferInv => DumpComplete
    BY DEF SnifferInv, DumpInv, DumpComplete
<1> QED BY <1>1, SnifferInvariant, PTL

\* Run never logs "Time in pcap went backwards" for a file in order.
THEOREM ReplayMovesForward == Spec => []TimeMovesForward
<1>1. SnifferInv => TimeMovesForward
    BY DEF SnifferInv, TimeInv, TimeMovesForward
<1> QED BY <1>1, SnifferInvariant, PTL

\* Whatever the snaplen and the size of a page, afpacketComputeSize yields frames that
\* hold a packet of that length and the largest buffer that fits the configured size,
\* in blocks of whole pages if a packet may need a page.
THEOREM RingBufferFits == Spec => []RingFits
<1>1. SnifferInv => RingFits
    BY DEF SnifferInv
<1> QED BY <1>1, SnifferInvariant, PTL
===============================================================================
