--------------------------------- MODULE Sniffer ---------------------------------
(***************************************************************************)
(* The life of the process around the packets: SnifferSetup of             *)
(* sniffer/sniffer.go (setFromConfig, Init, Run, Reopen, Stop) and the     *)
(* part of main.go that starts it, waits for it and handles signals.  A    *)
(* packet yields at most one event for Publisher.Queue here; what the      *)
(* layers above do with it is the subject of the other modules.            *)
(***************************************************************************)
EXTENDS Integers, Sequences, Afpacket

CONSTANTS
    Types,          \* values of Interfaces.Type in the configuration file
    Files,          \* {TRUE}: a capture file is read; {FALSE}: a device
    DeviceLists,    \* values of Interfaces.Devices (or of Device, as a list of one)
    Snaplens,       \* values of Interfaces.Snaplen, 0 when it is not set
    BufferSizes,    \* values of Interfaces.Buffer_size_mb, 0 when it is not set
    Loops,          \* values of the flag -l: passes over the file, 0 means for ever
    PageSize,       \* os.Getpagesize()
    PassLen,        \* packets in the file, with increasing timestamps
    QueueCap,       \* capacity of Publisher.Queue
    MaxCount        \* bound: the counters saturate here

Handles == {"pcap", "af_packet", "pfring"}
Configs == [type : Types, file : Files, devices : DeviceLists, snaplen : Snaplens,
            buffer_size_mb : BufferSizes, loop : Loops]

ASSUME SnifferAssumption ==
    /\ Types \subseteq STRING /\ Files \subseteq BOOLEAN
    /\ DeviceLists \subseteq Seq(STRING)
    /\ Snaplens \subseteq Nat /\ BufferSizes \subseteq Nat /\ Loops \subseteq Nat
    /\ PageSize \in Nat \ {0} /\ PassLen \in Nat /\ QueueCap \in Nat \ {0}
    /\ MaxCount \in Nat
    /\ \A l \in Loops : l * PassLen < MaxCount /\ l < MaxCount

VARIABLES
    config,         \* Interfaces
    isAlive,
    open,           \* handles that are open
    source,         \* the handle behind DataSource
    frame_size, block_size, num_blocks,     \* of the ring buffer of af_packet
    dumper,         \* "open" or "closed"
    dumped,         \* packets in the dump file
    spc,            \* where the sniffer is
    counter, loopCount, lastPktTime, retError,      \* locals of Run
    pos,            \* packets of the file that were read in this pass
    Queue,          \* events in Publisher.Queue
    signalled,      \* Stop was called because of a signal
    exit,           \* "no", or how the process ended: "ok", "failed", "tested", "killed"
    backwards       \* History: "Time in pcap went backwards" was logged

ring   == <<frame_size, block_size, num_blocks>>
setup  == <<config, source, ring>>
locals == <<counter, loopCount, lastPktTime, retError>>
dump   == <<dumper, dumped>>
vars   == <<setup, isAlive, open, dump, spc, locals, pos, Queue, signalled, exit, backwards>>

Running == exit = "no"
At(pc) == Running /\ spc = pc
Capped(n) == IF n < MaxCount THEN n ELSE MaxCount

-------------------------------------------------------------------------------
\* The configuration after the defaults of setFromConfig: a file is read with pcap,
\* there is at least one device, and the snaplen and the size of the buffer are set.
WithDefaults(c) ==
    LET type == IF c.file \/ c.type \in {"", "autodetect"} THEN "pcap" ELSE c.type
        devices == IF c.devices = <<>> THEN <<"any">> ELSE c.devices
        snaplen == IF devices[1] \in {"any", "lo"} THEN 16436 ELSE 1514
    IN  [type |-> type, file |-> c.file, devices |-> devices,
         snaplen |-> IF c.snaplen = 0 THEN snaplen ELSE c.snaplen,
         buffer_size_mb |-> IF c.buffer_size_mb = 0 /\ type = "af_packet"
                            THEN 24 ELSE c.buffer_size_mb,
         loop |-> c.loop]

\* Sniffing supports one device only; the devices do not matter for a file.  The
\* ring buffer of af_packet has at least one block.
Supported(c) ==
    /\ c.type \in Handles
    /\ c.file \/ Len(c.devices) = 1
    /\ c.type = "af_packet" => NumBlocks(c.buffer_size_mb, c.snaplen, PageSize) # 0

\* setFromConfig or another step of Init fails: main calls os.Exit(1).  (The
\* configuration may have been changed, or a handle opened, before; the process ends.)
InitFails ==
    /\ At("init")
    /\ exit' = "failed"
    /\ UNCHANGED <<setup, isAlive, open, dump, spc, locals, pos, Queue, signalled, backwards>>

\* setFromConfig opens the handle, Init opens the dump file.
InitSucceeds ==
    /\ At("init")
    /\ Supported(WithDefaults(config))
    /\ config' = WithDefaults(config)
    /\ open' = {config'.type} /\ source' = config'.type
    /\ IF config'.type = "af_packet"
       THEN /\ frame_size' = FrameSize(config'.snaplen, PageSize)
            /\ block_size' = BlockSize(config'.snaplen, PageSize)
            /\ num_blocks' = NumBlocks(config'.buffer_size_mb, config'.snaplen, PageSize)
       ELSE UNCHANGED ring
    /\ dumper' = "open"
    /\ isAlive' = TRUE
    /\ spc' = "start"
    /\ UNCHANGED <<dumped, locals, pos, Queue, signalled, exit, backwards>>

\* main gives up with the dump file open: the privileges cannot be dropped, or the
\* CPU profile cannot be created.
MainGivesUp ==
    /\ At("start")
    /\ exit' = "failed"
    /\ UNCHANGED <<setup, isAlive, open, dump, spc, locals, pos, Queue, signalled, backwards>>

\* The flag -test: "all good, exit with 0".
MainTested ==
    /\ At("start")
    /\ exit' = "tested"
    /\ UNCHANGED <<setup, isAlive, open, dump, spc, locals, pos, Queue, signalled, backwards>>

\* main starts Run in a goroutine.
MainStarts ==
    /\ At("start")
    /\ spc' = "loop"
    /\ UNCHANGED <<setup, isAlive, open, dump, locals, pos, Queue, signalled, exit, backwards>>

-------------------------------------------------------------------------------
\* for sniffer.isAlive
RunCheck ==
    /\ At("loop")
    /\ spc' = IF isAlive THEN "read" ELSE "finish"
    /\ UNCHANGED <<setup, isAlive, open, dump, locals, pos, Queue, signalled, exit, backwards>>

\* pcap gives up a read from a device after 500 ms: NextErrorTimeoutExpired.
RunTimeout ==
    /\ At("read") /\ ~config.file /\ source = "pcap"
    /\ spc' = "loop"
    /\ UNCHANGED <<setup, isAlive, open, dump, locals, pos, Queue, signalled, exit, backwards>>

\* The other devices wait until there is a packet: pfring has no timeout, and
\* pollForFirstPacket of af_packet polls again after one.  The poll may be interrupted
\* (EINTR) and a packet may be empty, but nothing says that this ever happens.
RunInterrupted ==
    /\ At("read") /\ source # "pcap"
    /\ spc' = "loop"
    /\ UNCHANGED <<setup, isAlive, open, dump, locals, pos, Queue, signalled, exit, backwards>>

\* Any other error of ReadPacketData.
RunError ==
    /\ At("read")
    /\ retError' = TRUE
    /\ isAlive' = FALSE
    /\ spc' = "loop"
    /\ UNCHANGED <<setup, open, dump, counter, loopCount, lastPktTime, pos, Queue, signalled, exit, backwards>>

AtEof == At("read") /\ config.file /\ pos = PassLen

\* Mutant: one pass too many.
LastPassLate == config.loop > 0 /\ loopCount + 1 > config.loop + 1

\* loopCount starts at 1 and is incremented first.
LastPass == config.loop > 0 /\ loopCount + 1 > config.loop

\* The last pass is over: give the publisher time to flush ...
RunEofLast ==
    /\ AtEof /\ LastPass
    /\ loopCount' = Capped(loopCount + 1)
    /\ spc' = "flush"
    /\ UNCHANGED <<setup, isAlive, open, dump, counter, lastPktTime, retError, pos, Queue, signalled, exit, backwards>>

\* ... and stop.
RunFlushed ==
    /\ At("flush")
    /\ isAlive' = FALSE
    /\ spc' = "loop"
    /\ UNCHANGED <<setup, open, dump, locals, pos, Queue, signalled, exit, backwards>>

\* Mutant: reopening starts the sniffer anew, also one that was stopped meanwhile.
ReopenRevives ==
    /\ AtEof /\ ~LastPass
    /\ loopCount' = Capped(loopCount + 1)
    /\ open' = {"pcap"} /\ pos' = 0
    /\ lastPktTime' = 0
    /\ isAlive' = TRUE
    /\ spc' = "loop"
    /\ UNCHANGED <<setup, dump, counter, retError, Queue, signalled, exit, backwards>>

\* Another pass: Reopen closes the handle and opens the file again.
Reopen ==
    /\ AtEof /\ ~LastPass
    /\ loopCount' = Capped(loopCount + 1)
    /\ open' = {"pcap"} /\ pos' = 0
    /\ lastPktTime' = 0
    /\ spc' = "loop"
    /\ UNCHANGED <<setup, isAlive, dump, counter, retError, Queue, signalled, exit, backwards>>

\* Mutant: the loop is not left.
ReopenFailsGoesOn ==
    /\ AtEof /\ ~LastPass
    /\ loopCount' = Capped(loopCount + 1)
    /\ open' = {} /\ retError' = TRUE
    /\ spc' = "loop"
    /\ UNCHANGED <<setup, isAlive, dump, counter, lastPktTime, pos, Queue, signalled, exit, backwards>>

\* The old handle is closed and there is no new one.
ReopenFails ==
    /\ AtEof /\ ~LastPass
    /\ loopCount' = Capped(loopCount + 1)
    /\ open' = {} /\ retError' = TRUE
    /\ isAlive' = FALSE
    /\ spc' = "loop"
    /\ UNCHANGED <<setup, dump, counter, lastPktTime, pos, Queue, signalled, exit, backwards>>

\* A packet: sleep as long as the file says, count, write to the dump file.
RunPacket ==
    /\ At("read") /\ (config.file => pos < PassLen)
    /\ IF config.file
       THEN /\ pos' = pos + 1
            /\ backwards' = (backwards \/ (lastPktTime # 0 /\ pos + 1 <= lastPktTime))
            /\ lastPktTime' = pos + 1
       ELSE UNCHANGED <<pos, backwards, lastPktTime>>
    /\ counter' = Capped(counter + 1)
    /\ dumped' = Capped(dumped + 1)
    /\ spc' = "decode"
    /\ UNCHANGED <<setup, isAlive, open, dumper, loopCount, retError, Queue, signalled, exit>>

\* DecodePacketData; an event blocks as long as the queue is full.
RunDecode ==
    /\ At("decode")
    /\ \E n \in 0 .. 1 : Queue + n <= QueueCap /\ Queue' = Queue + n
    /\ spc' = "loop"
    /\ UNCHANGED <<setup, isAlive, open, dump, locals, pos, signalled, exit, backwards>>

\* Mutant: after an error Run returns at once.
RunFinishOnErrorOpen ==
    /\ At("finish")
    /\ dumper' = IF retError THEN dumper ELSE "closed"
    /\ spc' = "return"
    /\ UNCHANGED <<setup, isAlive, open, dumped, locals, pos, Queue, signalled, exit, backwards>>

\* After the loop the dump file is closed.
RunFinish ==
    /\ At("finish")
    /\ dumper' = "closed"
    /\ spc' = "return"
    /\ UNCHANGED <<setup, isAlive, open, dumped, locals, pos, Queue, signalled, exit, backwards>>

-------------------------------------------------------------------------------
\* The goroutine around Run: os.Exit(1) after an error.
SnifferFailed ==
    /\ At("return") /\ retError
    /\ exit' = "failed"
    /\ UNCHANGED <<setup, isAlive, open, dump, spc, locals, pos, Queue, signalled, backwards>>

\* over <- true; main receives it, finds the sniffer dead, and returns.
MainReturns ==
    /\ At("return") /\ ~retError /\ ~isAlive
    /\ exit' = "ok"
    /\ UNCHANGED <<setup, isAlive, open, dump, spc, locals, pos, Queue, signalled, backwards>>

\* SIGINT or SIGTERM, at any time once Run was started: Stop.
Stop ==
    /\ Running /\ spc \notin {"init", "start"} /\ ~signalled
    /\ signalled' = TRUE
    /\ isAlive' = FALSE
    /\ UNCHANGED <<setup, open, dump, spc, locals, pos, Queue, exit, backwards>>

\* A panic in a goroutine that nobody recovers (a timer of pgsql, the redis output),
\* the runtime's abort on two accesses to a map, a signal before signal.Notify, SIGKILL.
Killed ==
    /\ Running
    /\ exit' = "killed"
    /\ UNCHANGED <<setup, isAlive, open, dump, spc, locals, pos, Queue, signalled, backwards>>

PublisherReceive ==
    /\ Running /\ Queue > 0
    /\ Queue' = Queue - 1
    /\ UNCHANGED <<setup, isAlive, open, dump, spc, locals, pos, signalled, exit, backwards>>

Init ==
    /\ config \in Configs
    /\ frame_size = 0 /\ block_size = 0 /\ num_blocks = 0
    /\ isAlive = FALSE /\ open = {} /\ source = "none"
    /\ dumper = "closed" /\ dumped = 0
    /\ spc = "init"
    /\ counter = 0 /\ loopCount = 1 /\ lastPktTime = 0 /\ retError = FALSE
    /\ pos = 0 /\ Queue = 0 /\ signalled = FALSE /\ exit = "no" /\ backwards = FALSE

RunEof == RunEofLast \/ Reopen \/ ReopenFails
RunRead == RunError \/ RunEof \/ RunPacket
RunOther ==
    \/ RunCheck \/ RunTimeout \/ RunFlushed
    \/ RunDecode \/ RunFinish \/ SnifferFailed \/ MainReturns
Main == InitFails \/ InitSucceeds \/ MainGivesUp \/ MainTested \/ MainStarts

Next == Main \/ RunRead \/ RunInterrupted \/ RunOther \/ Stop \/ Killed \/ PublisherReceive

Spec == Init /\ [][Next]_vars

\* The goroutines run when they can; a read from a file returns, and one from a device
\* after pcap's timeout.  Nothing obliges the user to send a signal, or the network to
\* send a packet.
FairSpec ==
    /\ Spec
    /\ WF_vars(Main) /\ WF_vars(PublisherReceive)
    /\ WF_vars(RunOther \/ (config.file /\ RunRead))

-------------------------------------------------------------------------------
\* The types of the variables; in particular the events in Publisher.Queue respect
\* its capacity and the position in the file never passes its end.
SnifferTypeOK ==
    /\ config.snaplen \in Nat /\ config.buffer_size_mb \in Nat
    /\ config.loop \in Loops /\ config.file \in BOOLEAN
    /\ frame_size \in Nat /\ block_size \in Nat /\ num_blocks \in Nat
    /\ isAlive \in BOOLEAN /\ retError \in BOOLEAN /\ signalled \in BOOLEAN /\ backwards \in BOOLEAN
    /\ open \subseteq Handles /\ source \in Handles \cup {"none"}
    /\ dumper \in {"open", "closed"} /\ dumped \in 0 .. MaxCount
    /\ spc \in {"init", "start", "loop", "read", "flush", "decode", "finish", "return"}
    /\ counter \in 0 .. MaxCount /\ loopCount \in 1 .. MaxCount
    /\ pos \in 0 .. PassLen /\ lastPktTime \in 0 .. PassLen
    /\ Queue \in 0 .. QueueCap /\ exit \in {"no", "ok", "failed", "tested", "killed"}

\* A read always goes to the open handle of the configured type, also after a file
\* was reopened or could not be: a closed handle is never read.
ReadsOpenHandle == spc = "read" => source = config.type /\ source \in open

\* Without a signal and without an error, the file was read exactly -l times when
\* the process ends.
LoopsExactly ==
    exit = "ok" /\ ~signalled =>
        config.file /\ config.loop > 0 /\ counter = config.loop * PassLen

\* However the sniffer ends, the dump file is closed first and has every packet.  main
\* may also exit before there was any packet; the file is left open only then, or when
\* the process is killed.
DumpComplete ==
    exit \notin {"no", "killed"} =>
        dumped = counter /\ (dumper = "closed" \/ counter = 0)

\* For a file with increasing timestamps the replay never sees time go backwards,
\* also not at the start of the next pass.
TimeMovesForward == ~backwards

\* The ring buffer, although its sizes come from nested integer divisions: a packet, cut
\* to snaplen bytes, fits into a frame; the buffer is "close to but smaller than" the
\* configured size, which one more block would exceed, and it is not empty; blocks are
\* whole pages if frames are not smaller than a page.
RingFits ==
    source = "af_packet" =>
        /\ frame_size >= config.snaplen
        /\ num_blocks * block_size <= config.buffer_size_mb * MegaByte
        /\ config.buffer_size_mb * MegaByte < (num_blocks + 1) * block_size
        /\ num_blocks > 0
        /\ config.snaplen >= PageSize => block_size % PageSize = 0

\* After a signal the process ends: neither a network that is silent (as long as reads
\* return, which those of pcap do by themselves) nor a full queue nor an endless replay
\* holds it.
StopsAfterSignal ==
    []<>(spc # "read" \/ source = "pcap") => (signalled ~> exit # "no")
===============================================================================
