------------------------------- MODULE NamesProofs -------------------------------
(***************************************************************************)
(* Theorems about the process watcher and the topology map, for every set  *)
(* of processes, pids, ports, shippers and addresses, and every number of  *)
(* starts, moves, stops and failures.                                      *)
(***************************************************************************)
EXTENDS Names, TLAPS

Programs == Names \cup {Other}

\* What runs: a socket belongs to a pid whose program is on record as owner of
\* the port.
SystemInv ==
    /\ program \in [Pids -> Programs \cup {""}]
    /\ ran \in [Pids -> SUBSET Programs]
    /\ \A pid \in Pids : program[pid] # "" => program[pid] \in ran[pid]
    /\ inodes \in Nat
    /\ socket \in [Ports -> [inode : Nat, pid : Pids \cup {0}, v4 : BOOLEAN]]
    /\ \A q \in Ports : socket[q].inode # 0 =>
        /\ socket[q].pid \in Pids
        /\ program[socket[q].pid] # ""
        /\ <<program[socket[q].pid], q>> \in owned

\* Inodes are not used again: an inode in the socket table that UpdateMap holds, or
\* in use, never belongs to another port.
InodeInv ==
    /\ \A q \in Ports : socket[q].inode <= inodes /\ update.table[q] <= inodes
    /\ \A q, r \in Ports : socket[q].inode # 0 /\ socket[q].inode = socket[r].inode => q = r
    /\ \A q, r \in Ports :
        update.table[q] # 0 /\ update.table[q] = socket[r].inode => q = r

\* The pids filed under a name, also those UpdateMap still has to visit, ran a
\* program of that name at some time.
PidInv ==
    /\ pidsOf \in [Names -> SUBSET Pids]
    /\ \A n \in Names : \A pid \in pidsOf[n] : n \in ran[pid]
    /\ update \in [busy : BOOLEAN, table : [Ports -> Nat], procs : Seq(Names),
                   name : Names \cup {""}, pids : SUBSET Pids]
    /\ \A pid \in update.pids : update.name \in Names /\ update.name \in ran[pid]
    /\ PortProcMap \in [Ports -> Names \cup {""}]

WatcherInv == SystemInv /\ InodeInv /\ PidInv /\ NamesWereTrue

LEMMA NoUpdateType ==
    NoUpdate \in [busy : BOOLEAN, table : [Ports -> Nat], procs : Seq(Names),
                  name : Names \cup {""}, pids : SUBSET Pids]
BY DEF NoUpdate

\* The watcher's invariant holds at the start.
LEMMA WatcherInit == ProcInit => WatcherInv
<1> SUFFICES ASSUME ProcInit PROVE WatcherInv
    OBVIOUS
<1>1. SystemInv
    BY DEF ProcInit, SystemInv, NoSocket
<1>2. InodeInv
    <2>1. \A q \in Ports : socket[q].inode = 0 /\ update.table[q] = 0 /\ inodes = 0
        BY DEF ProcInit, NoSocket, NoUpdate
    <2> QED BY <2>1 DEF InodeInv
<1>3. PidInv
    BY NoUpdateType DEF ProcInit, PidInv, NoUpdate
<1>4. NamesWereTrue
    BY DEF ProcInit, NamesWereTrue
<1> QED BY <1>1, <1>2, <1>3, <1>4 DEF WatcherInv

\* What the operating system does changes no name, and what was true stays on
\* record.
LEMMA SystemStep ==
    ASSUME WatcherInv, System
    PROVE  WatcherInv'
<1> USE DEF WatcherInv
<1>1. ASSUME NEW pid \in Pids, NEW prog \in Names \cup {Other}, StartProgram(pid, prog)
      PROVE  WatcherInv'
    <2> USE <1>1 DEF StartProgram, watcherVars
    <2>1. SystemInv'
        BY ProcAssumption DEF SystemInv, Programs
    <2>2. InodeInv'
        BY DEF InodeInv
    <2>3. \A p \in Pids : ran[p] \subseteq ran'[p]
        BY DEF SystemInv
    <2>4. PidInv'
        BY <2>3 DEF PidInv
    <2>5. NamesWereTrue'
        BY <2>3 DEF NamesWereTrue
    <2> QED BY <2>1, <2>2, <2>4, <2>5
<1>2. ASSUME NEW pid \in Pids, EndProgram(pid)
      PROVE  WatcherInv'
    <2> USE <1>2 DEF EndProgram, watcherVars
    <2>1. SystemInv'
        BY DEF SystemInv, NoSocket
    <2>2. InodeInv'
        <3>1. \A q \in Ports : socket'[q].inode \in {socket[q].inode, 0}
            BY DEF NoSocket
        <3>2. update' = update /\ inodes' = inodes /\ inodes \in Nat
            BY DEF SystemInv
        <3>3. InodeInv /\ \A q \in Ports : socket[q].inode \in Nat /\ update.table[q] \in Nat
            BY DEF SystemInv, PidInv
        <3> HIDE <1>2 DEF EndProgram, WatcherInv
        <3> QED BY <3>1, <3>2, <3>3 DEF InodeInv
    <2>3. PidInv'
        BY DEF PidInv
    <2>4. NamesWereTrue'
        BY DEF NamesWereTrue
    <2> QED BY <2>1, <2>2, <2>3, <2>4
<1>3. ASSUME NEW pid \in Pids, NEW port \in Ports, NEW v4 \in BOOLEAN, OpenSocket(pid, port, v4)
      PROVE  WatcherInv'
    <2> USE <1>3 DEF OpenSocket, watcherVars
    <2>1. SystemInv'
        <3>1. [inode |-> inodes + 1, pid |-> pid, v4 |-> v4] \in [inode : Nat, pid : Pids \cup {0}, v4 : BOOLEAN]
            <4>1. inodes \in Nat
                BY DEF SystemInv
            <4> HIDE <1>3 DEF OpenSocket, WatcherInv
            <4> QED BY <4>1
        <3>2. /\ socket'[port].inode = inodes + 1 /\ socket'[port].pid = pid
              /\ \A q \in Ports \ {port} : socket'[q] = socket[q]
            <4>1. socket'[port] = [inode |-> inodes + 1, pid |-> pid, v4 |-> v4]
                BY DEF SystemInv
            <4>2. \A q \in Ports \ {port} : socket'[q] = socket[q]
                BY DEF SystemInv
            <4> HIDE <1>3 DEF OpenSocket, WatcherInv
            <4> QED BY <4>1, <4>2
        <3>3. socket' \in [Ports -> [inode : Nat, pid : Pids \cup {0}, v4 : BOOLEAN]]
            BY <3>1 DEF SystemInv
        <3> QED BY <3>2, <3>3 DEF SystemInv
    <2>2. InodeInv'
        <3>1. /\ inodes \in Nat /\ inodes' = inodes + 1
              /\ \A q \in Ports : socket[q].inode \in Nat /\ update.table[q] \in Nat
            BY DEF SystemInv, PidInv
        <3>2. \A q \in Ports :
                socket'[q].inode = IF q = port THEN inodes + 1 ELSE socket[q].inode
            BY DEF SystemInv
        <3>3. update' = update
            OBVIOUS
        <3>4. InodeInv
            OBVIOUS
        <3> HIDE <1>3 DEF OpenSocket, WatcherInv
        <3> QED BY <3>1, <3>2, <3>3, <3>4 DEF InodeInv
    <2>3. PidInv'
        BY DEF PidInv
    <2>4. NamesWereTrue'
        BY DEF NamesWereTrue
    <2> QED BY <2>1, <2>2, <2>3, <2>4
<1> QED BY <1>1, <1>2, <1>3 DEF System

\* A pid whose open socket has the inode that the socket table gives for a port
\* had that port.
LEMMA VisitedPid ==
    ASSUME WatcherInv, NEW pid \in Pids, NEW q \in Ports,
           update.table[q] # 0, update.table[q] \in FindSocketsOfPid(pid)
    PROVE  program[pid] \in ran[pid] /\ <<program[pid], q>> \in owned
<1>1. PICK r \in Ports : socket[r].pid = pid /\ socket[r].inode = update.table[q]
    BY DEF FindSocketsOfPid
<1>2. r = q
    BY <1>1 DEF WatcherInv, InodeInv
<1> QED BY <1>1, <1>2 DEF WatcherInv, SystemInv

\* A step that leaves the map, the pids and the update alone keeps the invariant.
LEMMA WatcherStutter ==
    ASSUME WatcherInv, UNCHANGED <<systemVars, pidsOf, PortProcMap, update>>
    PROVE  WatcherInv'
<1>1. UNCHANGED <<program, socket, inodes, ran, owned, pidsOf, PortProcMap, update>>
    BY DEF systemVars
<1>2. SystemInv'
    BY <1>1 DEF WatcherInv, SystemInv
<1>3. InodeInv'
    BY <1>1 DEF WatcherInv, InodeInv
<1>4. PidInv'
    BY <1>1 DEF WatcherInv, PidInv
<1>5. NamesWereTrue'
    BY <1>1 DEF WatcherInv, NamesWereTrue
<1> QED BY <1>2, <1>3, <1>4, <1>5 DEF WatcherInv

\* Each step of the watcher itself keeps the invariant.
LEMMA WatcherStep ==
    ASSUME WatcherInv, ProcNext, ~System
    PROVE  WatcherInv'
<1> USE DEF WatcherInv
<1>1. CASE Elapse
    BY <1>1, WatcherStutter DEF Elapse
<1>2. ASSUME NEW n \in Names, RefreshPids(n) PROVE WatcherInv'
    <2>1. \A pid \in FindPidsByCmdlineGrep(n) : pid \in Pids /\ n \in ran[pid]
        BY ProcAssumption DEF FindPidsByCmdlineGrep, SystemInv
    <2>2. PidInv'
        BY <1>2, <2>1, ZenonT(60) DEF RefreshPids, systemVars, PidInv, FindPidsByCmdlineGrep
    <2> QED BY <1>2, <2>2 DEF RefreshPids, systemVars, SystemInv, InodeInv, NamesWereTrue
<1>3. ASSUME NEW port \in Ports, FindProcMiss(port) PROVE WatcherInv'
    <2>1. CASE UNCHANGED update
        BY <1>3, <2>1, WatcherStutter DEF FindProcMiss
    <2>2. CASE update' = [NoUpdate EXCEPT !.busy = TRUE, !.procs = Processes,
                               !.table = Parse_Proc_Net_Tcp]
        <3>1. Parse_Proc_Net_Tcp \in [Ports -> Nat]
            BY DEF Parse_Proc_Net_Tcp, SystemInv
        <3>2. /\ update'.table = Parse_Proc_Net_Tcp /\ update'.pids = {}
              /\ update' \in [busy : BOOLEAN, table : [Ports -> Nat], procs : Seq(Names),
                              name : Names \cup {""}, pids : SUBSET Pids]
            BY <2>2, <3>1, ProcAssumption DEF NoUpdate
        <3>3. PidInv'
            BY <1>3, <3>2 DEF FindProcMiss, systemVars, PidInv
        <3>4. InodeInv'
            <4>1. \A q \in Ports : update'.table[q] \in {socket[q].inode, 0}
                BY <3>2 DEF Parse_Proc_Net_Tcp
            <4>2. UNCHANGED <<socket, inodes>>
                BY <1>3 DEF FindProcMiss, systemVars
            <4>3. inodes \in Nat
                BY DEF SystemInv
            <4> QED BY <4>1, <4>2, <4>3 DEF InodeInv
        <3>5. SystemInv'
            BY <1>3 DEF FindProcMiss, systemVars, SystemInv
        <3>6. NamesWereTrue'
            BY <1>3 DEF FindProcMiss, systemVars, NamesWereTrue
        <3> QED BY <3>3, <3>4, <3>5, <3>6
    <2> QED BY <1>3, <2>1, <2>2 DEF FindProcMiss
<1>4. CASE UpdateMapProcess
    <2>1. Head(update.procs) \in Names /\ Tail(update.procs) \in Seq(Names)
        <3>1. update.procs \in Seq(Names) /\ update.procs # <<>>
            BY <1>4 DEF UpdateMapProcess, PidInv
        <3> QED BY <3>1
    <2>2. PidInv'
        BY <1>4, <2>1 DEF UpdateMapProcess, systemVars, PidInv
    <2>3. update'.table = update.table
        BY <1>4 DEF UpdateMapProcess, PidInv
    <2>4. UNCHANGED <<systemVars, PortProcMap>>
        BY <1>4 DEF UpdateMapProcess
    <2>5. SystemInv'
        BY <2>4 DEF systemVars, SystemInv
    <2>6. InodeInv'
        BY <2>3, <2>4 DEF systemVars, InodeInv
    <2>7. NamesWereTrue'
        BY <2>4 DEF systemVars, NamesWereTrue
    <2> QED BY <2>2, <2>5, <2>6, <2>7
<1>5. CASE UpdateMapPid
    <2>1. PICK pid \in update.pids : /\ update' = [update EXCEPT !.pids = @ \ {pid}]
                                     /\ \/ UpdateMappingEntry(FindSocketsOfPid(pid))
                                        \/ UNCHANGED PortProcMap
        BY <1>5 DEF UpdateMapPid
    <2>2. pid \in Pids /\ update.name \in Names /\ update.name \in ran[pid]
        BY <2>1 DEF PidInv
    <2>3. UNCHANGED <<systemVars, pidsOf>>
        BY <1>5 DEF UpdateMapPid
    <2>4. PidInv'
        BY <2>1, <2>2, <2>3 DEF PidInv, systemVars, UpdateMappingEntry
    <2>5. update'.table = update.table
        BY <2>1 DEF PidInv
    <2>6. NamesWereTrue'
        <3>0. ran' = ran /\ owned' = owned
            BY <2>3 DEF systemVars
        <3> SUFFICES ASSUME NEW q \in Ports, PortProcMap'[q] # "",
                            PortProcMap'[q] # PortProcMap[q]
                     PROVE  \E p \in Pids, prog \in Names \cup {Other} :
                              /\ PortProcMap'[q] \in ran[p] /\ prog \in ran[p]
                              /\ <<prog, q>> \in owned
            BY <3>0 DEF NamesWereTrue
        <3>1. /\ PortProcMap'[q] = update.name
              /\ update.table[q] # 0 /\ update.table[q] \in FindSocketsOfPid(pid)
            BY <2>1 DEF UpdateMappingEntry, PidInv
        <3>2. program[pid] \in ran[pid] /\ <<program[pid], q>> \in owned
            BY <2>2, <3>1, VisitedPid
        <3>3. program[pid] \in Names \cup {Other}
            BY <2>2, <3>2 DEF SystemInv, Programs
        <3> QED BY <2>2, <3>1, <3>2, <3>3
    <2> QED BY <2>3, <2>4, <2>5, <2>6, ZenonT(60) DEF systemVars, SystemInv, InodeInv
<1>6. CASE UpdateMapEnd
    <2>1. PidInv'
        BY <1>6, NoUpdateType DEF UpdateMapEnd, systemVars, PidInv, NoUpdate
    <2>2. InodeInv'
        <3>1. update'.table = [q \in Ports |-> 0]
            BY <1>6 DEF UpdateMapEnd, NoUpdate
        <3>2. UNCHANGED <<socket, inodes>>
            BY <1>6 DEF UpdateMapEnd, systemVars
        <3>3. inodes \in Nat /\ \A q \in Ports : update'.table[q] = 0
            BY <3>1 DEF SystemInv
        <3> QED BY <3>2, <3>3 DEF InodeInv
    <2> QED BY <1>6, <2>1, <2>2 DEF UpdateMapEnd, systemVars, SystemInv, NamesWereTrue
<1> QED BY <1>1, <1>2, <1>3, <1>4, <1>5, <1>6 DEF ProcNext, UpdateMapStep

\* The process watcher never gives a port a name out of nowhere: whatever starts,
\* ends, opens and closes between its readings of the pids, of the socket table and
\* of the open files, the port belonged to a program of that name, or to one that
\* shares a pid with it.
THEOREM ProcessNamesWereTrue == Spec => []NamesWereTrue
<1>1. Init => WatcherInv
    BY WatcherInit DEF Init
<1>2. WatcherInv /\ [Next]_namesVars => WatcherInv'
    <2> SUFFICES ASSUME WatcherInv, [Next]_namesVars PROVE WatcherInv'
        OBVIOUS
    <2>1. CASE ProcNext
        BY <2>1, SystemStep, WatcherStep
    <2>2. CASE UNCHANGED procVars
        BY <2>2, WatcherStutter DEF procVars
    <2> QED BY <2>1, <2>2 DEF Next, namesVars
<1>3. WatcherInv => NamesWereTrue
    BY DEF WatcherInv
<1> QED BY <1>1, <1>2, <1>3, PTL DEF Spec

-------------------------------------------------------------------------------
Owners == [IPs -> Shippers \cup {""}]

TopologyType ==
    /\ addrs \in [Shippers -> SUBSET IPs]
    /\ had \in [Shippers -> SUBSET IPs]
    /\ localAddrs \in [Shippers -> SUBSET IPs]
    /\ entries \in [Shippers -> [there : BOOLEAN, ips : SUBSET IPs, ttl : BOOLEAN]]
    /\ hosts \in [Shippers -> SUBSET Shippers]
    /\ mapTmp \in [Shippers -> Owners]
    /\ TopologyMap \in [Shippers -> Owners]

\* A host has had every address that it has, that its shipper has read, that its
\* entry in the store lists, and that some shipper's map, finished or not, gives
\* to it.
HadInv ==
    /\ \A s \in Shippers : addrs[s] \subseteq had[s]
    /\ \A s \in Shippers : localAddrs[s] \subseteq had[s]
    /\ \A s \in Shippers : entries[s].ips \subseteq had[s]
    /\ \A s \in Shippers, ip \in IPs : mapTmp[s][ip] # "" => ip \in had[mapTmp[s][ip]]
    /\ \A s \in Shippers, ip \in IPs :
        TopologyMap[s][ip] # "" => ip \in had[TopologyMap[s][ip]]

TopologyInv == TopologyType /\ HadInv

LEMMA EmptyMapType == EmptyMap \in Owners /\ \A ip \in IPs : EmptyMap[ip] = ""
BY DEF EmptyMap, Owners

LEMMA TopologyAtStart == TopologyInit => TopologyInv
<1> SUFFICES ASSUME TopologyInit PROVE TopologyInv
    OBVIOUS
<1>1. TopologyType
    BY EmptyMapType DEF TopologyInit, TopologyType, NoEntry
<1>2. HadInv
    BY EmptyMapType DEF TopologyInit, HadInv, NoEntry
<1> QED BY <1>1, <1>2 DEF TopologyInv

\* A step that leaves the maps, the entries and the addresses alone.
LEMMA TopologyStutter ==
    ASSUME TopologyInv,
           UNCHANGED <<addrs, had, localAddrs, entries, hosts, mapTmp, TopologyMap>>
    PROVE  TopologyInv'
<1>1. TopologyType'
    BY DEF TopologyInv, TopologyType
<1>2. HadInv'
    BY DEF TopologyInv, HadInv
<1> QED BY <1>1, <1>2 DEF TopologyInv

LEMMA MoveAddressKeeps ==
    ASSUME TopologyInv, NEW ip \in IPs, NEW from \in Shippers, NEW to \in Shippers,
           MoveAddress(ip, from, to)
    PROVE  TopologyInv'
<1>1. /\ addrs' = [addrs EXCEPT ![from] = @ \ {ip}, ![to] = @ \cup {ip}]
      /\ had' = [had EXCEPT ![to] = @ \cup {ip}]
      /\ UNCHANGED <<localAddrs, entries, hosts, mapTmp, TopologyMap>>
    BY DEF MoveAddress
<1>2. TopologyType'
    BY <1>1 DEF TopologyInv, TopologyType
<1>3. \A s \in Shippers : had[s] \subseteq had'[s]
    BY <1>1 DEF TopologyInv, TopologyType
<1>4. \A s \in Shippers : addrs'[s] \subseteq had'[s]
    BY <1>1 DEF TopologyInv, TopologyType, HadInv
<1>5. \A s \in Shippers, i \in IPs :
        /\ mapTmp[s][i] # "" => mapTmp[s][i] \in Shippers
        /\ TopologyMap[s][i] # "" => TopologyMap[s][i] \in Shippers
    <2> SUFFICES ASSUME NEW s \in Shippers, NEW i \in IPs
                 PROVE  /\ mapTmp[s][i] \in Shippers \cup {""}
                        /\ TopologyMap[s][i] \in Shippers \cup {""}
        OBVIOUS
    <2>1. mapTmp[s] \in Owners /\ TopologyMap[s] \in Owners
        BY DEF TopologyInv, TopologyType
    <2> QED BY <2>1 DEF Owners
<1>6. HadInv'
    BY <1>1, <1>3, <1>4, <1>5 DEF TopologyInv, HadInv
<1> QED BY <1>2, <1>6 DEF TopologyInv

LEMMA EntryExpiresKeeps ==
    ASSUME TopologyInv, NEW s \in Shippers, EntryExpires(s)
    PROVE  TopologyInv'
<1>1. /\ entries' = [entries EXCEPT ![s] = NoEntry]
      /\ UNCHANGED <<addrs, had, localAddrs, hosts, mapTmp, TopologyMap>>
    BY DEF EntryExpires
<1>2. TopologyType'
    BY <1>1 DEF TopologyInv, TopologyType, NoEntry
<1>3. \A t \in Shippers : entries'[t].ips \subseteq had[t]
    BY <1>1 DEF TopologyInv, TopologyType, HadInv, NoEntry
<1>4. HadInv'
    BY <1>1, <1>3 DEF TopologyInv, HadInv
<1> QED BY <1>2, <1>4 DEF TopologyInv

\* The steps that write a shipper's addresses to the store.
LEMMA PublishKeeps ==
    ASSUME TopologyInv, NEW s \in Shippers,
           PublishTopology(s) \/ PublishIPs(s) \/ PublishIPsExpire(s)
    PROVE  TopologyInv'
<1>1. CASE PublishTopology(s)
    <2>1. /\ localAddrs' = [localAddrs EXCEPT ![s] = addrs[s]]
          /\ UNCHANGED <<addrs, had, entries, hosts, mapTmp, TopologyMap>>
        BY <1>1 DEF PublishTopology
    <2>2. TopologyType'
        BY <2>1 DEF TopologyInv, TopologyType
    <2>3. HadInv'
        BY <2>1 DEF TopologyInv, TopologyType, HadInv
    <2> QED BY <2>2, <2>3 DEF TopologyInv
<1>2. ASSUME NEW e \in [there : BOOLEAN, ips : SUBSET IPs, ttl : BOOLEAN],
             e.ips \subseteq had[s], entries' = [entries EXCEPT ![s] = e],
             UNCHANGED <<addrs, had, localAddrs, hosts, mapTmp, TopologyMap>>
      PROVE  TopologyInv'
    <2>1. TopologyType'
        BY <1>2 DEF TopologyInv, TopologyType
    <2>2. \A t \in Shippers : entries'[t].ips \subseteq had[t]
        BY <1>2 DEF TopologyInv, TopologyType, HadInv
    <2>3. HadInv'
        BY <1>2, <2>2 DEF TopologyInv, HadInv
    <2> QED BY <2>1, <2>3 DEF TopologyInv
<1>3. CASE PublishIPs(s)
    <2>1. UNCHANGED <<addrs, had, localAddrs, hosts, mapTmp, TopologyMap>>
        BY <1>3 DEF PublishIPs
    <2>2. CASE UNCHANGED entries
        BY <2>1, <2>2, TopologyStutter
    <2>3. CASE entries' = [entries EXCEPT ![s] =
                [there |-> TRUE, ips |-> localAddrs[s],
                 ttl |-> IF store = "redis" THEN @.ttl ELSE TRUE]]
        <3> DEFINE e == [there |-> TRUE, ips |-> localAddrs[s],
                         ttl |-> IF store = "redis" THEN entries[s].ttl ELSE TRUE]
        <3>1. entries' = [entries EXCEPT ![s] = e]
            BY <2>3
        <3>2. e \in [there : BOOLEAN, ips : SUBSET IPs, ttl : BOOLEAN]
            BY DEF TopologyInv, TopologyType
        <3>3. e.ips \subseteq had[s]
            BY DEF TopologyInv, HadInv
        <3> HIDE DEF e
        <3> QED BY <1>2, <2>1, <3>1, <3>2, <3>3
    <2> QED BY <1>3, <2>2, <2>3 DEF PublishIPs
<1>4. CASE PublishIPsExpire(s)
    <2>1. UNCHANGED <<addrs, had, localAddrs, hosts, mapTmp, TopologyMap>>
        BY <1>4 DEF PublishIPsExpire
    <2>2. CASE UNCHANGED entries
        BY <2>1, <2>2, TopologyStutter
    <2>3. CASE entries' = [entries EXCEPT ![s].ttl = @ \/ entries[s].there]
        <3> DEFINE e == [entries[s] EXCEPT !.ttl = @ \/ entries[s].there]
        <3>1. entries' = [entries EXCEPT ![s] = e]
            BY <2>3
        <3>2. e \in [there : BOOLEAN, ips : SUBSET IPs, ttl : BOOLEAN] /\ e.ips = entries[s].ips
            BY DEF TopologyInv, TopologyType
        <3>3. entries[s].ips \subseteq had[s]
            BY DEF TopologyInv, HadInv
        <3> HIDE DEF e
        <3> QED BY <1>2, <2>1, <3>1, <3>2, <3>3
    <2> QED BY <1>4, <2>2, <2>3 DEF PublishIPsExpire
<1> QED BY <1>1, <1>3, <1>4

\* A map that names only hosts that have had the address may become mapTmp or
\* TopologyMap of a shipper.
LEMMA NewMapKeeps ==
    ASSUME TopologyInv, NEW s \in Shippers, NEW m \in Owners,
           \A ip \in IPs : m[ip] # "" => ip \in had[m[ip]],
           UNCHANGED <<addrs, had, localAddrs, entries>>,
           hosts' \in [Shippers -> SUBSET Shippers],
           \/ mapTmp' = [mapTmp EXCEPT ![s] = m] /\ UNCHANGED TopologyMap
           \/ TopologyMap' = [TopologyMap EXCEPT ![s] = m] /\ UNCHANGED mapTmp
    PROVE  TopologyInv'
<1>1. TopologyType'
    BY ZenonT(60) DEF TopologyInv, TopologyType
<1>2. HadInv'
    BY ZenonT(60) DEF TopologyInv, TopologyType, HadInv
<1> QED BY <1>1, <1>2 DEF TopologyInv

\* The steps that read the entries back.
LEMMA UpdateKeeps ==
    ASSUME TopologyInv, NEW s \in Shippers,
           \/ UpdateLocalTopologyMap(s) \/ UpdateLocalTopologyMapHost(s)
           \/ UpdateLocalTopologyMapEnd(s) \/ UpdateLocalTopologyMapSearch(s)
    PROVE  TopologyInv'
<1>0. hosts \in [Shippers -> SUBSET Shippers]
    BY DEF TopologyInv, TopologyType
<1>1. CASE UpdateLocalTopologyMap(s)
    <2>1. UNCHANGED <<addrs, had, localAddrs, entries, TopologyMap>>
        BY <1>1 DEF UpdateLocalTopologyMap
    <2>2. CASE UNCHANGED <<hosts, mapTmp>>
        BY <2>1, <2>2, TopologyStutter
    <2>3. CASE /\ hosts' = [hosts EXCEPT ![s] = {t \in Shippers : entries[t].there}]
               /\ mapTmp' = [mapTmp EXCEPT ![s] = EmptyMap]
        BY <1>0, <2>1, <2>3, EmptyMapType, NewMapKeeps
    <2> QED BY <1>1, <2>2, <2>3 DEF UpdateLocalTopologyMap
<1>2. CASE UpdateLocalTopologyMapHost(s)
    <2>1. UNCHANGED <<addrs, had, localAddrs, entries, TopologyMap>>
        BY <1>2 DEF UpdateLocalTopologyMapHost
    <2> DEFINE m(t) == [ip \in IPs |-> IF ip \in entries[t].ips THEN t ELSE mapTmp[s][ip]]
    <2>2. PICK t \in hosts[s] :
            /\ hosts' = [hosts EXCEPT ![s] = @ \ {t}]
            /\ mapTmp' = [mapTmp EXCEPT ![s] = m(t)] \/ UNCHANGED mapTmp
        BY <1>2 DEF UpdateLocalTopologyMapHost
    <2>3. t \in Shippers /\ hosts' \in [Shippers -> SUBSET Shippers]
        BY <1>0, <2>2
    <2>4. m(t) \in Owners /\ \A ip \in IPs : m(t)[ip] # "" => ip \in had[m(t)[ip]]
        <3>1. mapTmp[s] \in Owners
            BY DEF TopologyInv, TopologyType
        <3>2. \A ip \in entries[t].ips : ip \in had[t]
            BY <2>3 DEF TopologyInv, HadInv
        <3>3. \A ip \in IPs : mapTmp[s][ip] # "" => ip \in had[mapTmp[s][ip]]
            BY DEF TopologyInv, HadInv
        <3> QED BY <2>3, <3>1, <3>2, <3>3 DEF Owners
    <2> HIDE DEF m
    <2>5. CASE mapTmp' = [mapTmp EXCEPT ![s] = m(t)]
        BY <2>1, <2>3, <2>4, <2>5, NewMapKeeps
    <2>6. CASE UNCHANGED mapTmp
        <3>1. TopologyType'
            BY <2>1, <2>3, <2>6 DEF TopologyInv, TopologyType
        <3>2. HadInv'
            BY <2>1, <2>6 DEF TopologyInv, HadInv
        <3> QED BY <3>1, <3>2 DEF TopologyInv
    <2> QED BY <2>2, <2>5, <2>6
<1>3. CASE UpdateLocalTopologyMapEnd(s)
    <2>1. /\ TopologyMap' = [TopologyMap EXCEPT ![s] = mapTmp[s]]
          /\ mapTmp' = [mapTmp EXCEPT ![s] = EmptyMap]
          /\ UNCHANGED <<addrs, had, localAddrs, entries, hosts>>
        BY <1>3 DEF UpdateLocalTopologyMapEnd
    <2>2. TopologyType'
        BY <2>1, EmptyMapType DEF TopologyInv, TopologyType
    <2>3. \A t \in Shippers, ip \in IPs : mapTmp'[t][ip] # "" => ip \in had[mapTmp'[t][ip]]
        BY <2>1, EmptyMapType DEF TopologyInv, TopologyType, HadInv
    <2>4. \A t \in Shippers, ip \in IPs :
            TopologyMap'[t][ip] # "" => ip \in had[TopologyMap'[t][ip]]
        BY <2>1 DEF TopologyInv, TopologyType, HadInv
    <2>5. HadInv'
        BY <2>1, <2>3, <2>4 DEF TopologyInv, HadInv
    <2> QED BY <2>2, <2>5 DEF TopologyInv
<1>4. CASE UpdateLocalTopologyMapSearch(s)
    <2>1. UNCHANGED <<addrs, had, localAddrs, entries, hosts, mapTmp>>
        BY <1>4 DEF UpdateLocalTopologyMapSearch
    <2>2. CASE TopologyMap' = [TopologyMap EXCEPT ![s] = EmptyMap]
        BY <1>0, <2>1, <2>2, EmptyMapType, NewMapKeeps
    <2>3. CASE UNCHANGED TopologyMap
        BY <2>1, <2>3, TopologyStutter
    <2>4. ASSUME NEW hits \in SUBSET Shippers, NEW m \in [IPs -> Shippers \cup {""}],
                 \A ip \in IPs :
                    LET owners == {t \in hits : ip \in entries[t].ips} IN
                    IF owners = {} THEN m[ip] = "" ELSE m[ip] \in owners,
                 TopologyMap' = [TopologyMap EXCEPT ![s] = m]
          PROVE  TopologyInv'
        <3>1. \A ip \in IPs : m[ip] # "" => m[ip] \in Shippers /\ ip \in entries[m[ip]].ips
            BY <2>4
        <3>2. \A ip \in IPs : m[ip] # "" => ip \in had[m[ip]]
            BY <3>1 DEF TopologyInv, HadInv
        <3> QED BY <1>0, <2>1, <2>4, <3>2, NewMapKeeps DEF Owners
    <2>5. \/ TopologyMap' = [TopologyMap EXCEPT ![s] = EmptyMap]
          \/ UNCHANGED TopologyMap
          \/ \E hits \in SUBSET Shippers, m \in [IPs -> Shippers \cup {""}] :
                /\ \A ip \in IPs :
                      LET owners == {t \in hits : ip \in entries[t].ips} IN
                      IF owners = {} THEN m[ip] = "" ELSE m[ip] \in owners
                /\ TopologyMap' = [TopologyMap EXCEPT ![s] = m]
        BY <1>4 DEF UpdateLocalTopologyMapSearch
    <2> QED BY <2>2, <2>3, <2>4, <2>5
<1> QED BY <1>1, <1>2, <1>3, <1>4

\* With ignore_outgoing, publishEvent leaves a transaction to another shipper only
\* if the address of the server has been one of that shipper's host: for any number
\* of shippers that read, write, fail and stop in any order, no map ever names a
\* host that never had the address.
THEOREM LeftOnlyToFormerOwners == Spec => []LeftToFormerOwner
<1>1. Init => TopologyInv
    BY TopologyAtStart DEF Init
<1>2. TopologyInv /\ [Next]_namesVars => TopologyInv'
    <2> SUFFICES ASSUME TopologyInv, [Next]_namesVars PROVE TopologyInv'
        OBVIOUS
    <2>1. CASE UNCHANGED topologyVars
        BY <2>1, TopologyStutter DEF topologyVars
    <2>2. CASE TopologyNext
        <3>1. ASSUME NEW s \in Shippers, StopShipper(s) PROVE TopologyInv'
            BY <3>1, TopologyStutter DEF StopShipper
        <3> QED BY <2>2, <3>1, MoveAddressKeeps, EntryExpiresKeeps, PublishKeeps, UpdateKeeps
                DEF TopologyNext, ShipperStep
    <2> QED BY <2>1, <2>2 DEF Next, namesVars
<1>3. TopologyInv => LeftToFormerOwner
    BY DEF TopologyInv, HadInv, LeftToFormerOwner, Ignored
<1> QED BY <1>1, <1>2, <1>3, PTL DEF Spec
===============================================================================
