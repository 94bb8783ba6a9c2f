------------------------------- MODULE ProcWatcher -------------------------------
(***************************************************************************)
(* The process watcher (procs/procs.go), which names the processes behind  *)
(* local ports.  A goroutine for each monitored process rereads its pids   *)
(* at every tick.  FindProc, called in the sniffer goroutine, looks a port *)
(* up in PortProcMap and, when it is not there and the last reading is old *)
(* enough, joins the socket table with the open files of the pids.         *)
(*                                                                         *)
(* The operating system goes on meanwhile: processes start and end, pids   *)
(* and ports are used again.                                               *)
(***************************************************************************)
EXTENDS Integers, Sequences, FiniteSets

CONSTANTS
    Processes,      \* the monitored processes, in the order of the configuration
    Pids, Ports,
    MaxSockets,     \* bound: sockets opened
    MaxStarts,      \* bound: programs started
    MaxProcErrors   \* bound: failures to read /proc

Names == {Processes[i] : i \in 1 .. Len(Processes)}
Other == "other"    \* a program nobody monitors

ASSUME ProcAssumption ==
    /\ Processes \in Seq(Names)
    /\ Other \notin Names /\ "" \notin Names
    /\ MaxSockets \in Nat /\ MaxStarts \in Nat /\ MaxProcErrors \in Nat

VARIABLES
    \* The operating system.
    program,        \* the program each pid runs, or ""
    socket,         \* the socket bound to each port: its inode, pid and family, or NoSocket
    inodes, starts,
    \* The watcher.
    pidsOf,         \* p.Pids of each process
    PortProcMap,    \* the name of each port, or ""
    mayRead,        \* is LastMapUpdate older than MaxReadFreq?
    update,         \* UpdateMap at work: the socket table, the processes and pids to go
    procErrors,
    \* History.
    ran,            \* the programs each pid ran so far
    owned           \* <<program, port>> of all sockets so far

systemVars == <<program, socket, inodes, starts, ran, owned>>
procVars == <<systemVars, pidsOf, PortProcMap, mayRead, update, procErrors>>
watcherVars == <<pidsOf, PortProcMap, mayRead, update, procErrors>>

NoSocket == [inode |-> 0, pid |-> 0, v4 |-> FALSE]
NoUpdate ==
    [busy |-> FALSE, table |-> [q \in Ports |-> 0], procs |-> <<>>, name |-> "", pids |-> {}]

-------------------------------------------------------------------------------
(* The operating system.                                                   *)

StartProgram(pid, prog) ==
    /\ program[pid] = "" /\ starts < MaxStarts
    /\ starts' = starts + 1
    /\ program' = [program EXCEPT ![pid] = prog]
    /\ ran' = [ran EXCEPT ![pid] = @ \cup {prog}]
    /\ UNCHANGED <<socket, inodes, owned, watcherVars>>

EndProgram(pid) ==
    /\ program[pid] # ""
    /\ program' = [program EXCEPT ![pid] = ""]
    /\ socket' = [q \in Ports |-> IF socket[q].pid = pid THEN NoSocket ELSE socket[q]]
    /\ UNCHANGED <<inodes, starts, ran, owned, watcherVars>>

OpenSocket(pid, port, v4) ==
    /\ program[pid] # "" /\ socket[port] = NoSocket /\ inodes < MaxSockets
    /\ inodes' = inodes + 1
    /\ socket' = [socket EXCEPT ![port] = [inode |-> inodes + 1, pid |-> pid, v4 |-> v4]]
    /\ owned' = owned \cup {<<program[pid], port>>}
    /\ UNCHANGED <<program, starts, ran, watcherVars>>

System ==
    \E pid \in Pids :
        \/ \E prog \in Names \cup {Other} : StartProgram(pid, prog)
        \/ EndProgram(pid)
        \/ \E port \in Ports, v4 \in BOOLEAN : OpenSocket(pid, port, v4)

-------------------------------------------------------------------------------
(* The watcher.                                                            *)

\* The pids of the programs that match, the inodes of the open sockets of a pid (none
\* if it has ended), and the inode of each local port in /proc/net/tcp, which does
\* not list the sockets of IPv6.
FindPidsByCmdlineGrep(n) == {pid \in Pids : program[pid] = n}
FindSocketsOfPid(pid) == {socket[q].inode : q \in {r \in Ports : socket[r].pid = pid}}
Parse_Proc_Net_Tcp == [q \in Ports |-> IF socket[q].v4 THEN socket[q].inode ELSE 0]

\* Mutant: the pids are read once.
RefreshPidsOnce(n) ==
    /\ pidsOf[n] = {}
    /\ pidsOf' = [pidsOf EXCEPT ![n] = FindPidsByCmdlineGrep(n)]
    /\ UNCHANGED <<systemVars, PortProcMap, mayRead, update, procErrors>>

\* A tick of the timer of a process: FindPidsByCmdlineGrep returns the pids, or an
\* error and none.
RefreshPids(n) ==
    /\ \/ /\ pidsOf' = [pidsOf EXCEPT ![n] = FindPidsByCmdlineGrep(n)]
          /\ UNCHANGED procErrors
       \/ /\ procErrors < MaxProcErrors /\ procErrors' = procErrors + 1
          /\ pidsOf' = [pidsOf EXCEPT ![n] = {}]
    /\ UNCHANGED <<systemVars, PortProcMap, mayRead, update>>

\* MaxReadFreq has passed since LastMapUpdate.
Elapse ==
    /\ ~mayRead
    /\ mayRead' = TRUE
    /\ UNCHANGED <<systemVars, pidsOf, PortProcMap, update, procErrors>>

\* FindProc for a port that is not in the map; UpdateMap begins with the socket
\* table, or fails to read it.
FindProcMiss(port) ==
    /\ ~update.busy /\ PortProcMap[port] = "" /\ mayRead
    /\ mayRead' = FALSE
    /\ \/ /\ update' = [NoUpdate EXCEPT !.busy = TRUE, !.procs = Processes,
                             !.table = Parse_Proc_Net_Tcp]
          /\ UNCHANGED procErrors
       \/ /\ procErrors < MaxProcErrors /\ procErrors' = procErrors + 1
          /\ UNCHANGED update
    /\ UNCHANGED <<systemVars, pidsOf, PortProcMap>>

\* The next process; the range over p.Pids keeps the list of this moment.
UpdateMapProcess ==
    /\ update.busy /\ update.pids = {} /\ update.procs # <<>>
    /\ update' = [update EXCEPT !.procs = Tail(@), !.name = Head(update.procs),
                                !.pids = pidsOf[Head(update.procs)]]
    /\ UNCHANGED <<systemVars, pidsOf, PortProcMap, mayRead, procErrors>>

\* Mutant: the sockets of the pid are not compared with the table.
UpdateMapPidAll ==
    /\ update.busy
    /\ \E pid \in update.pids :
        /\ update' = [update EXCEPT !.pids = @ \ {pid}]
        /\ PortProcMap' = [q \in Ports |->
              IF update.table[q] # 0 /\ program[pid] # "" THEN update.name ELSE PortProcMap[q]]
    /\ UNCHANGED <<systemVars, pidsOf, mayRead, procErrors>>

\* "Simply overwrite old entries": the ports of the table with one of the inodes.
UpdateMappingEntry(inodesOfPid) ==
    PortProcMap' = [q \in Ports |->
        IF update.table[q] # 0 /\ update.table[q] \in inodesOfPid
        THEN update.name ELSE PortProcMap[q]]

\* The next pid of the process; one whose open files cannot be read is skipped.
UpdateMapPid ==
    /\ update.busy
    /\ \E pid \in update.pids :
        /\ update' = [update EXCEPT !.pids = @ \ {pid}]
        /\ \/ UpdateMappingEntry(FindSocketsOfPid(pid)) /\ UNCHANGED procErrors
           \/ /\ procErrors < MaxProcErrors /\ procErrors' = procErrors + 1
              /\ UNCHANGED PortProcMap
    /\ UNCHANGED <<systemVars, pidsOf, mayRead>>

UpdateMapEnd ==
    /\ update.busy /\ update.pids = {} /\ update.procs = <<>>
    /\ update' = NoUpdate
    /\ UNCHANGED <<systemVars, pidsOf, PortProcMap, mayRead, procErrors>>

UpdateMapStep == UpdateMapProcess \/ UpdateMapPid \/ UpdateMapEnd

ProcInit ==
    /\ program = [pid \in Pids |-> ""] /\ socket = [q \in Ports |-> NoSocket]
    /\ inodes = 0 /\ starts = 0
    /\ pidsOf = [n \in Names |-> {}] /\ PortProcMap = [q \in Ports |-> ""]
    /\ mayRead = FALSE /\ update = NoUpdate /\ procErrors = 0
    /\ ran = [pid \in Pids |-> {}] /\ owned = {}

ProcNext ==
    \/ System \/ Elapse \/ UpdateMapStep
    \/ \E n \in Names : RefreshPids(n)
    \/ \E port \in Ports : FindProcMiss(port)

\* Ticks come, time passes, and packets of unnamed ports keep arriving.
ProcFairness ==
    /\ \A n \in Names : WF_procVars(RefreshPids(n))
    /\ WF_procVars(Elapse) /\ WF_procVars(UpdateMapStep)
    /\ WF_procVars(\E port \in Ports : FindProcMiss(port))

-------------------------------------------------------------------------------
\* The name of a port is that of a program that had the port at some time, however
\* the readings of pids, socket table and open files interleave with programs that
\* start and end; only a pid that is used again can lend its former program's name
\* to the port.
NamesWereTrue ==
    \A q \in Ports : PortProcMap[q] # "" =>
        \/ <<PortProcMap[q], q>> \in owned
        \/ \E pid \in Pids, prog \in Names \cup {Other} :
              PortProcMap[q] \in ran[pid] /\ prog \in ran[pid] /\ <<prog, q>> \in owned

\* A program of this name has the port, with a socket of IPv4.
Has(n, q) == socket[q].v4 /\ program[socket[q].pid] = n

\* No other monitored program had the port, nor a pid of this one.
Undisputed(n, q) ==
    /\ \A m \in Names \ {n} : <<m, q>> \notin owned
    /\ \A pid \in Pids : n \in ran[pid] => ran[pid] \subseteq {n, Other}

\* A monitored program that keeps a port which it need not share with the past is
\* given its own name in the end, and for good, although the readings are rationed,
\* misses of other ports use them up, and pids are read by a goroutine that replaces
\* the list while UpdateMap goes through it.
NamesAppear ==
    \A q \in Ports, n \in Names :
        <>[](Has(n, q) /\ Undisputed(n, q)) => <>[](PortProcMap[q] = n)
===============================================================================
